---- MODULE Spec2Model ----
(***************************************************************************)
(* Pose ring of HelloArApplication::CloudXRClient                          *)
(* (hello_ar_application.cc): pose_matrix_[kQueueLen], current_idx_,       *)
(* state_mutex_, framesLatched_, latched_ and the methods SetPoseMatrix,   *)
(* GetTrackingState, DetermineOffset, Latch and Release.                   *)
(*                                                                         *)
(* Floats are fixed-point integers in units of 0.00005, so the tolerance   *)
(* 0.0001f of DetermineOffset is Eps = 2 units and 1.0f is One.            *)
(*                                                                         *)
(* Spec     : every method is one atomic action (methods run to            *)
(*            completion, in any order the class allows).                  *)
(* SpecConc : the render thread (Latch, DetermineOffset, SetPoseMatrix,    *)
(*            Release) and the CloudXR callback thread (GetTrackingState)  *)
(*            interleave statement by statement.                           *)
(* FairConc : SpecConc with the fairness of a scheduler that lets every    *)
(*            runnable thread run.                                         *)
(* SpecApp  : HelloArApplication: the lifecycle callbacks (OnResume,       *)
(*            OnPause, OnTouched, OnDrawFrame) run to their end on the GL  *)
(*            thread, OnDrawFrame one client call after the other, while   *)
(*            the receiver and oboe call GetTrackingState, RenderAudio     *)
(*            and onAudioReady on their threads.                           *)
(* SpecClient: the methods of CloudXRClient (Connect, Teardown, Latch,     *)
(*            Release, Render, Stats) called in any order, each with the   *)
(*            history of its SDK calls.                                    *)
(* SpecAudio: Connect and Teardown on the GL thread, statement by          *)
(*            statement, against RenderAudio and onAudioReady on the       *)
(*            audio threads.                                               *)
(* SpecTolerance: the atomic methods of Spec on poses that are less than,  *)
(*            and exactly, the tolerance apart.                            *)
(***************************************************************************)
EXTENDS Integers, Sequences, FiniteSets, TLC

\* ------------------------------------------------------------------ bounds
\* Ring capacity used for checking; the program takes it from
\* BackgroundRenderer::kQueueLen.
QueueLenBound == 3

kQueueLen == QueueLenBound

\* The tolerance 0.0001f of DetermineOffset, in units of 0.00005.
Eps == 2

\* 1.0f in the same units.
One == 10000 * Eps

\* The camera poses of the model, as <<translation x, off-diagonal rotation
\* entry>>: translations 2 and 3 are closer than Eps, 2 and 4 are exactly
\* Eps apart, and <<2, 0>>, <<4, 0>>, <<2, 5>>, <<4, 5>> differ pairwise by
\* at least Eps in some component.
PoseParams == {<<2, 0>>, <<3, 0>>, <<4, 0>>, <<2, 5>>, <<4, 5>>}

Rows == 0..2
Cols == 0..3
Slots == 0..(kQueueLen - 1)

\* ------------------------------------------------------------- data types
\* glm::mat4 is column-major: pose_mat[c][r].  A camera pose is a rigid
\* transform: rotation block, translation in column 3, last row 0 0 0 1.
Mat4(tx, rot) ==
  [c \in 0..3 |-> [r \in 0..3 |->
     IF c = r THEN One
     ELSE IF c = 3 /\ r = 0 THEN tx
     ELSE IF c = 1 /\ r = 0 THEN rot
     ELSE IF c = 0 /\ r = 1 THEN 0 - rot
     ELSE 0]]

\* The poses OnDrawFrame may hand to SetPoseMatrix.
PoseMats == {Mat4(p[1], p[2]) : p \in PoseParams}

\* cxrMatrix34 value-initialised: all twelve components 0.
ZeroMatrix34 == [i \in Rows |-> [j \in Cols |-> 0]]

\* fabsf
fabsf(x) == IF x < 0 THEN 0 - x ELSE x

\* Variant: the remainder of the floored quotient, never negative.
CRem_Floored(a, b) == a % b

\* The C++ operator % on int: the quotient truncates toward zero, so the
\* result has the sign of the dividend.
CRem(a, b) == IF a >= 0 THEN a % b ELSE 0 - ((0 - a) % b)

\* ---------------------------------------------------------- SetPoseMatrix
\* The twelve assignments of SetPoseMatrix in program order:
\* <<i, j, c, r>> stands for pose_matrix.m[i][j] = pose_mat[c][r].
Assignments ==
  << <<0, 0, 0, 0>>, <<0, 1, 1, 0>>, <<0, 2, 2, 0>>, <<0, 3, 3, 0>>,
     <<1, 0, 0, 1>>, <<1, 1, 1, 1>>, <<1, 2, 2, 1>>, <<1, 3, 3, 1>>,
     <<2, 0, 0, 2>>, <<2, 1, 1, 2>>, <<2, 2, 2, 2>>, <<2, 3, 3, 2>> >>

NumAssignments == Len(Assignments)

\* One assignment applied to a cxrMatrix34.
Assign(m, a, pose_mat) ==
  [m EXCEPT ![a[1]][a[2]] = pose_mat[a[3]][a[4]]]

\* The first n assignments applied to m.
RECURSIVE AssignFirst(_, _, _)
AssignFirst(m, n, pose_mat) ==
  IF n = 0 THEN m
  ELSE Assign(AssignFirst(m, n - 1, pose_mat), Assignments[n], pose_mat)

\* The cxrMatrix34 SetPoseMatrix leaves in the slot for pose_mat.
StoredPose(pose_mat) == AssignFirst(ZeroMatrix34, NumAssignments, pose_mat)

\* Variant: the cursor is clamped at the last slot instead of wrapping.
NextIdx_NoWrap(idx) == IF idx + 1 >= kQueueLen THEN idx ELSE idx + 1

\* current_idx_ = (current_idx_ + 1) % kQueueLen
NextIdx(idx) == CRem(idx + 1, kQueueLen)

\* ------------------------------------------------------- GetTrackingState
\* Variant: the slot at the cursor is taken for the newest one.
NewestIdx_AtCursor(idx) == idx

\* idx = current_idx_ == 0 ? kQueueLen - 1 : (current_idx_ - 1) % kQueueLen
NewestIdx(idx) ==
  IF idx = 0 THEN kQueueLen - 1 ELSE CRem(idx - 1, kQueueLen)

\* cxrMatrixToVecQuat: position is the translation column, rotation is the
\* orientation of the 3x3 block (kept as the block itself: a quaternion
\* and its rotation matrix determine each other up to sign).
cxrMatrixToVecQuat(m) ==
  [position |-> <<m[0][3], m[1][3], m[2][3]>>,
   rotation |-> <<<<m[0][0], m[0][1], m[0][2]>>,
                  <<m[1][0], m[1][1], m[1][2]>>,
                  <<m[2][0], m[2][1], m[2][2]>>>>]

\* -------------------------------------------------------- DetermineOffset
\* Variant: offset 0 is the newest slot, as in GetTrackingState.
OffsetIdx_FromNewest(idx, offset) ==
  (idx + 2 * kQueueLen - 1 - offset) % kQueueLen

\* idx = current_idx_ < offset ? kQueueLen + (current_idx_ - offset) % kQueueLen
\*                             : (current_idx_ - offset) % kQueueLen
OffsetIdx(idx, offset) ==
  IF idx < offset
    THEN kQueueLen + CRem(idx - offset, kQueueLen)
    ELSE CRem(idx - offset, kQueueLen)

\* Variant: a component exactly Eps away from the target still counts as
\* equal.
NotMatch_Inclusive(m, target) ==
  Cardinality({ij \in Rows \X Cols :
     fabsf(m[ij[1]][ij[2]] - target[ij[1]][ij[2]]) > Eps})

\* notMatch: the number of components at least Eps away from the target.
NotMatch(m, target) ==
  Cardinality({ij \in Rows \X Cols :
     fabsf(m[ij[1]][ij[2]] - target[ij[1]][ij[2]]) >= Eps})

\* 0 == notMatch
Matches(m, target) == NotMatch(m, target) = 0

\* Variant: the loop does not return at the first match, the last match wins.
RECURSIVE ScanFrom_LastMatch(_, _, _, _)
ScanFrom_LastMatch(ring, idx, target, offset) ==
  IF offset >= kQueueLen THEN [offset |-> 0, examined |-> 0]
  ELSE LET rest == ScanFrom_LastMatch(ring, idx, target, offset + 1)
       IN IF Matches(ring[(idx + kQueueLen - offset) % kQueueLen], target)
               /\ rest.offset = 0
            THEN [offset |-> offset, examined |-> rest.examined + 1]
            ELSE [offset |-> rest.offset, examined |-> rest.examined + 1]

\* Variant: the loop variable is returned when the loop runs out.
RECURSIVE ScanFrom_ReturnsLen(_, _, _, _)
ScanFrom_ReturnsLen(ring, idx, target, offset) ==
  IF offset >= kQueueLen THEN [offset |-> offset, examined |-> 0]
  ELSE IF Matches(ring[(idx + kQueueLen - offset) % kQueueLen], target)
    THEN [offset |-> offset, examined |-> 1]
  ELSE LET rest == ScanFrom_ReturnsLen(ring, idx, target, offset + 1)
       IN [offset |-> rest.offset, examined |-> rest.examined + 1]

\* The loop of DetermineOffset from `offset` on: the value returned and
\* the number of slots examined from `offset` on.
RECURSIVE ScanFrom(_, _, _, _)
ScanFrom(ring, idx, target, offset) ==
  IF offset >= kQueueLen THEN [offset |-> 0, examined |-> 0]
  ELSE IF Matches(ring[OffsetIdx(idx, offset)], target)
    THEN [offset |-> offset, examined |-> 1]
  ELSE LET rest == ScanFrom(ring, idx, target, offset + 1)
       IN [offset |-> rest.offset, examined |-> rest.examined + 1]

\* ------------------------------------------------------------------ state
VARIABLES
  pose_matrix_,    \* cxrMatrix34 pose_matrix_[kQueueLen]
  current_idx_,    \* int current_idx_: the slot SetPoseMatrix writes next
  framesLatched_,  \* framesLatched_.poseMatrix
  latched_,        \* bool latched_
  state_mutex_,    \* owner of state_mutex_: "none", "render" or "callback"
  hist,            \* history: the poses pushed, newest first, last kQueueLen + 1
  written,         \* history: the slots written, most recently written first
  state,           \* the pose GetTrackingState put into *state (None outside)
  pose_offset,     \* what DetermineOffset returned to OnDrawFrame (None outside)
  pcRender,        \* render thread: position in OnDrawFrame's streaming path
  pose_mat,        \* render thread: the argument of SetPoseMatrix
  have_frame,      \* render thread: have_frame of OnDrawFrame
  offset,          \* render thread: loop variable of DetermineOffset
  pre,             \* render thread: the slot the reference pose_matrix is bound
                   \* to, and (history) the ring when the mutex was taken
  nAssigned,       \* render thread: assignments of SetPoseMatrix done so far
  pcCallback,      \* callback thread: position in GetTrackingState
  idx,             \* callback thread: idx of GetTrackingState
  nRead,           \* callback thread: components cxrMatrixToVecQuat has read
  copy,            \* callback thread: the components read so far
  cloudxr_receiver_,      \* cxrReceiverHandle cloudxr_receiver_ is not null
  playback_stream_,       \* playback_stream_ is not null
  recording_stream_,      \* recording_stream_ is not null
  launch_options_,        \* launch_options_.mReceiveAudio, .mSendAudio
  frames_until_stats_,    \* int frames_until_stats_
  exiting_,               \* static bool HelloArApplication::exiting_
  ar_session_,            \* ar_session_ is not null
  using_image_anchors_,   \* bool using_image_anchors_
  anchor_,                \* anchor_ is not null
  base_frame_calibrated_, \* bool base_frame_calibrated_
  pcFrame,         \* GL thread: position in the running callback ("idle" outside)
  trace,           \* history: what the running callback has done so far
  rc,              \* GL thread: the value OnDrawFrame returns (read at "ret")
  audio            \* what the last audio callback did (None outside)

ringVars == <<pose_matrix_, current_idx_>>
latchVars == <<framesLatched_, latched_>>
histVars == <<hist, written>>
renderVars == <<pcRender, pose_mat, have_frame, offset, pre, nAssigned>>
callbackVars == <<pcCallback, idx, nRead, copy>>
clientVars == <<cloudxr_receiver_, playback_stream_, recording_stream_,
                launch_options_, frames_until_stats_>>
sessionVars == <<exiting_, ar_session_, using_image_anchors_, anchor_,
                 base_frame_calibrated_>>
frameVars == <<pcFrame, trace, rc>>
appVars == <<clientVars, sessionVars, frameVars, audio>>
vars == <<ringVars, latchVars, state_mutex_, histVars, state, pose_offset,
          renderVars, callbackVars, appVars>>

\* The frames cxrLatchFrame may deliver: the pose the server rendered with
\* is one it was sent, or (before any pose arrived) the zero matrix.
LatchedPoses == {StoredPose(p) : p \in PoseMats} \cup {ZeroMatrix34}

\* A local that does not exist at the moment (its function is not running).
None == [none |-> TRUE]

\* The argument of SetPoseMatrix outside a call: no pose.
NoPose == [c \in 0..3 |-> [r \in 0..3 |-> 0]]

NoPre == [ring |-> [s \in Slots |-> ZeroMatrix34], idx |-> 0, written |-> <<>>]

\* frames_until_stats_ = 60 and, after a statistics query, framesPerSecond * 3:
\* the frames between two queries, scaled down.
StatsFramesBound == 2

\* State after construction of HelloArApplication and its CloudXRClient
\* (member initialisers, ClientOptions defaults), all threads outside the
\* methods.
Init ==
  /\ pose_matrix_ = [s \in Slots |-> ZeroMatrix34]
  /\ current_idx_ = 0
  /\ framesLatched_ = ZeroMatrix34
  /\ latched_ = FALSE
  /\ state_mutex_ = "none"
  /\ hist = <<>>
  /\ written = <<>>
  /\ state = None
  /\ pose_offset = None
  /\ pcRender = "idle"
  /\ pose_mat = NoPose
  /\ have_frame = FALSE
  /\ offset = 0
  /\ pre = NoPre
  /\ nAssigned = 0
  /\ pcCallback = "idle"
  /\ idx = 0
  /\ nRead = 0
  /\ copy = ZeroMatrix34
  /\ cloudxr_receiver_ = FALSE
  /\ playback_stream_ = FALSE
  /\ recording_stream_ = FALSE
  /\ launch_options_ = [mReceiveAudio |-> TRUE, mSendAudio |-> FALSE]
  /\ frames_until_stats_ = StatsFramesBound
  /\ exiting_ = FALSE
  /\ ar_session_ = FALSE
  /\ using_image_anchors_ = FALSE
  /\ anchor_ = FALSE
  /\ base_frame_calibrated_ = FALSE
  /\ pcFrame = "idle"
  /\ trace = <<>>
  /\ rc = 0
  /\ audio = None

\* ---------------------------------------------------------------- history
\* s put in front of q, q cut to at most n elements.
PushFront(s, q, n) ==
  LET all == <<s>> \o q
  IN IF Len(all) > n THEN SubSeq(all, 1, n) ELSE all

\* q without the elements equal to s.
Without(q, s) == SelectSeq(q, LAMBDA x : x # s)

\* The history after a push of pm into slot s.
HistAfterPush(pm, s) ==
  /\ hist' = PushFront(pm, hist, kQueueLen + 1)
  /\ written' = <<s>> \o Without(written, s)

\* ------------------------------------------------- methods, run atomically
\* Variant: the newest slot is overwritten instead of the one at the cursor.
RingAfterPush_Newest(ring, cur, pm) ==
  [ring EXCEPT ![NewestIdx(cur)] = AssignFirst(ring[cur], NumAssignments, pm)]

\* SetPoseMatrix(pose_mat): the whole body under the lock_guard.
RingAfterPush(ring, cur, pm) ==
  [ring EXCEPT ![cur] = AssignFirst(ring[cur], NumAssignments, pm)]

SetPoseMatrix(pm) ==
  /\ pose_matrix_' = RingAfterPush(pose_matrix_, current_idx_, pm)
  /\ current_idx_' = NextIdx(current_idx_)
  /\ HistAfterPush(pm, current_idx_)
  /\ state' = None
  /\ pose_offset' = None
  /\ UNCHANGED <<appVars, latchVars, state_mutex_, renderVars, callbackVars>>

\* GetTrackingState(state): the pose the callback hands to the receiver.
TrackingState(ring, cur) == cxrMatrixToVecQuat(ring[NewestIdx(cur)])

GetTrackingState ==
  /\ state' = TrackingState(pose_matrix_, current_idx_)
  /\ pose_offset' = None
  /\ UNCHANGED <<appVars, ringVars, latchVars, state_mutex_, histVars, renderVars,
                 callbackVars>>

\* DetermineOffset(): OnDrawFrame calls it only with a frame latched.
DetermineOffsetResult(ring, cur, target) == ScanFrom(ring, cur, target, 0)

DetermineOffset ==
  /\ latched_
  /\ pose_offset' = DetermineOffsetResult(pose_matrix_, current_idx_,
                                          framesLatched_)
  /\ state' = None
  /\ UNCHANGED <<appVars, ringVars, latchVars, state_mutex_, histVars, renderVars,
                 callbackVars>>

\* What Latch() does to framesLatched_ and latched_ with the receiver
\* running, when cxrLatchFrame returns `status` and, on success, has filled
\* framesLatched_ with `frame`.
LatchEffect(status, frame) ==
  IF ~latched_ /\ status = "cxrError_Success"
    THEN /\ framesLatched_' = frame
         /\ latched_' = TRUE
    ELSE UNCHANGED latchVars

\* The status Latch() returns.
LatchReturns(status) == IF latched_ THEN "cxrError_Success" ELSE status

Latch(status, frame) ==
  /\ LatchEffect(status, frame)
  /\ state' = None
  /\ pose_offset' = None
  /\ UNCHANGED <<appVars, ringVars, state_mutex_, histVars, renderVars, callbackVars>>

\* Release()
Release ==
  /\ latched_' = FALSE
  /\ state' = None
  /\ pose_offset' = None
  /\ UNCHANGED <<appVars, framesLatched_, ringVars, state_mutex_, histVars, renderVars,
                 callbackVars>>

Next ==
  \/ \E pm \in PoseMats : SetPoseMatrix(pm)
  \/ GetTrackingState
  \/ DetermineOffset
  \/ \E frame \in LatchedPoses : Latch("cxrError_Success", frame)
  \/ Latch("cxrError_Frame_Not_Ready", framesLatched_)
  \/ Release

Spec == Init /\ [][Next]_vars

\* ------------------------------------------- threads, statement by statement
\* The poses and frames of the interleaved specification: two poses that
\* differ in their translation and in their rotation entries, so that a
\* matrix mixed from the two (or from one and zero) is none of them.
ConcPoseMats == {Mat4(2, 0), Mat4(4, 5)}

ConcLatchedPoses == {StoredPose(Mat4(2, 0)), ZeroMatrix34}

\* Variant: the acquisition does not wait for the mutex to be free.
Acquire_NoWait(t) == state_mutex_' = t

\* std::lock_guard<std::mutex> lock(state_mutex_): blocks until the mutex
\* is free, then owns it.
Acquire(t) ==
  /\ state_mutex_ = "none"
  /\ state_mutex_' = t

\* ~lock_guard at the end of the scope.
Unlock(t) == state_mutex_' = "none"

\* -- render thread: OnDrawFrame, streaming path ---------------------------
\* const cxrError status = cloudxr_client_->Latch(); have_frame; the call of
\* DetermineOffset, or pose_offset = 0 without a frame.
Render_Latch(status, frame) ==
  /\ pcRender = "idle"
  /\ LatchEffect(status, frame)
  /\ have_frame' = (LatchReturns(status) = "cxrError_Success")
  /\ offset' = 0
  /\ IF have_frame'
       THEN pose_offset' = None /\ pcRender' = "scan"
       ELSE pose_offset' = [offset |-> 0, examined |-> 0]
            /\ pcRender' = "call_push"
  /\ UNCHANGED <<appVars, ringVars, state_mutex_, histVars, state, pose_mat, pre,
                 nAssigned, callbackVars>>

\* One iteration of the loop of DetermineOffset.
Render_ScanSlot ==
  /\ pcRender = "scan"
  /\ offset < kQueueLen
  /\ IF Matches(pose_matrix_[OffsetIdx(current_idx_, offset)], framesLatched_)
       THEN /\ pose_offset' = [offset |-> offset, examined |-> offset + 1]
            /\ pcRender' = "call_push"
            /\ UNCHANGED offset
       ELSE /\ offset' = offset + 1
            /\ UNCHANGED <<pose_offset, pcRender>>
  /\ UNCHANGED <<appVars, ringVars, latchVars, state_mutex_, histVars, state, pose_mat,
                 have_frame, pre, nAssigned, callbackVars>>

\* The loop of DetermineOffset ran out: return 0.
Render_ScanEnd ==
  /\ pcRender = "scan"
  /\ offset >= kQueueLen
  /\ pose_offset' = [offset |-> 0, examined |-> offset]
  /\ pcRender' = "call_push"
  /\ UNCHANGED <<appVars, ringVars, latchVars, state_mutex_, histVars, state, pose_mat,
                 have_frame, offset, pre, nAssigned, callbackVars>>

\* cloudxr_client_->SetPoseMatrix(cloudxr_pose_mat)
Render_CallSetPoseMatrix(pm) ==
  /\ pcRender = "call_push"
  /\ pose_mat' = pm
  /\ pcRender' = "lock"
  /\ UNCHANGED <<appVars, ringVars, latchVars, state_mutex_, histVars, state,
                 pose_offset, have_frame, offset, pre, nAssigned, callbackVars>>

\* The lock_guard of SetPoseMatrix and auto& pose_matrix =
\* pose_matrix_[current_idx_].
Render_Lock ==
  /\ pcRender = "lock"
  /\ Acquire("render")
  /\ pre' = [ring |-> pose_matrix_, idx |-> current_idx_, written |-> written]
  /\ nAssigned' = 0
  /\ pcRender' = "assign"
  /\ UNCHANGED <<appVars, ringVars, latchVars, histVars, state, pose_offset, pose_mat,
                 have_frame, offset, callbackVars>>

\* The next of the twelve assignments through the reference pose_matrix.
Render_Assign ==
  /\ pcRender = "assign"
  /\ nAssigned < NumAssignments
  /\ pose_matrix_' =
       [pose_matrix_ EXCEPT
          ![pre.idx] = Assign(@, Assignments[nAssigned + 1], pose_mat)]
  /\ nAssigned' = nAssigned + 1
  /\ UNCHANGED <<appVars, current_idx_, latchVars, state_mutex_, histVars, state,
                 pose_offset, pcRender, pose_mat, have_frame, offset, pre,
                 callbackVars>>

\* current_idx_ = (current_idx_ + 1) % kQueueLen
Render_Advance ==
  /\ pcRender = "assign"
  /\ nAssigned = NumAssignments
  /\ current_idx_' = NextIdx(current_idx_)
  /\ HistAfterPush(pose_mat, pre.idx)
  /\ pcRender' = "unlock"
  /\ UNCHANGED <<appVars, pose_matrix_, latchVars, state_mutex_, state, pose_offset,
                 pose_mat, have_frame, offset, pre, nAssigned, callbackVars>>

\* Variant: SetPoseMatrix returns without releasing the mutex.
Render_Unlock_Kept ==
  /\ pcRender = "unlock"
  /\ pcRender' = "release"
  /\ UNCHANGED <<appVars, ringVars, latchVars, state_mutex_, histVars, state,
                 pose_offset, pose_mat, have_frame, offset, pre, nAssigned,
                 callbackVars>>

\* SetPoseMatrix returns: the lock_guard releases the mutex.
Render_Unlock ==
  /\ pcRender = "unlock"
  /\ Unlock("render")
  /\ pcRender' = "release"
  /\ UNCHANGED <<appVars, ringVars, latchVars, histVars, state, pose_offset, pose_mat,
                 have_frame, offset, pre, nAssigned, callbackVars>>

\* if (have_frame) { Render; Release; Stats } and the end of OnDrawFrame.
Render_Release ==
  /\ pcRender = "release"
  /\ IF have_frame THEN latched_' = FALSE ELSE UNCHANGED latched_
  /\ have_frame' = FALSE
  /\ pose_offset' = None
  /\ pose_mat' = NoPose
  /\ offset' = 0
  /\ pre' = NoPre
  /\ nAssigned' = 0
  /\ pcRender' = "idle"
  /\ UNCHANGED <<appVars, ringVars, framesLatched_, state_mutex_, histVars, state,
                 callbackVars>>

\* -- callback thread: GetTrackingState -----------------------------------
\* The receiver calls GetTrackingState: *state = {} and the validity flags.
Callback_Call ==
  /\ pcCallback = "idle"
  /\ pcCallback' = "lock"
  /\ UNCHANGED <<appVars, ringVars, latchVars, state_mutex_, histVars, state,
                 pose_offset, renderVars, idx, nRead, copy>>

\* Variant: GetTrackingState reads without a lock_guard.
Callback_Lock_Skipped ==
  /\ pcCallback = "lock"
  /\ pcCallback' = "index"
  /\ UNCHANGED <<appVars, ringVars, latchVars, state_mutex_, histVars, state,
                 pose_offset, renderVars, idx, nRead, copy>>

\* The lock_guard of GetTrackingState.
Callback_Lock ==
  /\ pcCallback = "lock"
  /\ Acquire("callback")
  /\ pcCallback' = "index"
  /\ UNCHANGED <<appVars, ringVars, latchVars, histVars, state, pose_offset, renderVars,
                 idx, nRead, copy>>

\* Variant: GetTrackingState steps the cursor itself back to the newest slot.
Callback_Index_InPlace ==
  /\ pcCallback = "index"
  /\ current_idx_' = NewestIdx(current_idx_)
  /\ idx' = current_idx_'
  /\ nRead' = 0
  /\ copy' = ZeroMatrix34
  /\ pcCallback' = "read"
  /\ UNCHANGED <<appVars, pose_matrix_, latchVars, state_mutex_, histVars, state,
                 pose_offset, renderVars>>

\* const int idx = ...
Callback_Index ==
  /\ pcCallback = "index"
  /\ idx' = NewestIdx(current_idx_)
  /\ nRead' = 0
  /\ copy' = ZeroMatrix34
  /\ pcCallback' = "read"
  /\ UNCHANGED <<appVars, ringVars, latchVars, state_mutex_, histVars, state,
                 pose_offset, renderVars>>

\* cxrMatrixToVecQuat reads the next component of pose_matrix_[idx].
Callback_Read ==
  /\ pcCallback = "read"
  /\ nRead < NumAssignments
  /\ LET i == nRead \div 4
         j == nRead % 4
     IN copy' = [copy EXCEPT ![i][j] = pose_matrix_[idx][i][j]]
  /\ nRead' = nRead + 1
  /\ UNCHANGED <<appVars, ringVars, latchVars, state_mutex_, histVars, state,
                 pose_offset, renderVars, pcCallback, idx>>

\* cxrMatrixToVecQuat writes position and rotation into *state.
Callback_Convert ==
  /\ pcCallback = "read"
  /\ nRead = NumAssignments
  /\ state' = cxrMatrixToVecQuat(copy)
  /\ pcCallback' = "unlock"
  /\ UNCHANGED <<appVars, ringVars, latchVars, state_mutex_, histVars, pose_offset,
                 renderVars, idx, nRead, copy>>

\* End of the block: the lock_guard releases the mutex, and
\* GetTrackingState returns *state to the receiver.
Callback_Unlock ==
  /\ pcCallback = "unlock"
  /\ Unlock("callback")
  /\ state' = None
  /\ idx' = 0
  /\ nRead' = 0
  /\ copy' = ZeroMatrix34
  /\ pcCallback' = "idle"
  /\ UNCHANGED <<appVars, ringVars, latchVars, histVars, pose_offset, renderVars>>

RenderInFrame ==
  \/ Render_ScanSlot
  \/ Render_ScanEnd
  \/ \E pm \in ConcPoseMats : Render_CallSetPoseMatrix(pm)
  \/ Render_Assign
  \/ Render_Advance
  \/ Render_Unlock
  \/ Render_Release

CallbackInCall ==
  \/ Callback_Index
  \/ Callback_Read
  \/ Callback_Convert
  \/ Callback_Unlock

NextConc ==
  \/ \E frame \in ConcLatchedPoses : Render_Latch("cxrError_Success", frame)
  \/ Render_Latch("cxrError_Frame_Not_Ready", framesLatched_)
  \/ Render_ScanSlot
  \/ Render_ScanEnd
  \/ \E pm \in ConcPoseMats : Render_CallSetPoseMatrix(pm)
  \/ Render_Lock
  \/ Render_Assign
  \/ Render_Advance
  \/ Render_Unlock
  \/ Render_Release
  \/ Callback_Call
  \/ Callback_Lock
  \/ Callback_Index
  \/ Callback_Read
  \/ Callback_Convert
  \/ Callback_Unlock

SpecConc == Init /\ [][NextConc]_vars

\* A thread inside OnDrawFrame or GetTrackingState keeps running (weak
\* fairness of its steps), and a thread blocked on the mutex gets it once it
\* has been free often enough (strong fairness of the two acquisitions).
\* Neither a new frame nor a new callback has to come.
FairConc ==
  /\ SpecConc
  /\ WF_vars(RenderInFrame)
  /\ WF_vars(CallbackInCall)
  /\ SF_vars(Render_Lock)
  /\ SF_vars(Callback_Lock)

\* ------------------------------------------------ callbacks, call by call
\* The variables of the statement-level threads, which stay as they are
\* while whole calls are followed.
stmtVars == <<state_mutex_, pcRender, pose_mat, offset, pre, nAssigned,
              callbackVars>>

\* One entry of the history of a callback: a call into an SDK or into the
\* client, the status it returned ("" where it returns none; for the entry
\* of OnTouched the kind of press it was given), the frame offset it was
\* given or returned, and cloudxr_receiver_, latched_ and
\* base_frame_calibrated_ as they were when it was made.
Event(call, st, off, receiver, latched) ==
  [call |-> call, status |-> st, offset |-> off, receiver |-> receiver,
   latched |-> latched, calibrated |-> base_frame_calibrated_]

\* A call made in the current state.
Call(call, st, off) == Event(call, st, off, cloudxr_receiver_, latched_)

\* The calls of a history.
Calls(tr) == {tr[i].call : i \in DOMAIN tr}

\* How often a call is in a history.
Count(tr, call) == Cardinality({i \in DOMAIN tr : tr[i].call = call})

\* What an SDK call may return.
OboeResults == {"OK", "Error"}

ConnectErrors == {"cxrError_Success", "cxrError_Failed"}

LatchErrors ==
  {"cxrError_Success", "cxrError_Frame_Not_Ready",
   "cxrError_Receiver_Not_Running"}

\* Variant: every status is converted to 0.
AsInt_Zero(st) == 0

\* (int)status: cxrError_Success is 0, every error is another value.
AsInt(st) ==
  CASE st = "cxrError_Success" -> 0
    [] st = "cxrError_Failed" -> 1
    [] st = "cxrError_Frame_Not_Ready" -> 2
    [] st = "cxrError_Receiver_Not_Running" -> 3

\* Variant: IsRunning() answers true without a receiver too.
IsRunning_Always == TRUE

\* IsRunning()
IsRunning == cloudxr_receiver_

\* -- Connect() -------------------------------------------------------------
\* The results of the SDK calls of one Connect(): the playback stream
\* (openStream, setBufferSizeInFrames, start), the recording stream
\* (openStream, start), cxrCreateReceiver and cxrConnect.
ConnectResults ==
  [playback : OboeResults, recording : OboeResults,
   create : ConnectErrors, connect : ConnectErrors]

\* Variant: a Connect() whose cxrConnect failed keeps the receiver.
ConnectReceiver_Kept(o) ==
  cloudxr_receiver_ \/ o.create = "cxrError_Success"

\* cloudxr_receiver_ after Connect(): an earlier receiver is kept; a new one
\* exists if cxrCreateReceiver made it and cxrConnect did not fail, after
\* which Teardown() destroys it.
ConnectReceiver(o) ==
  \/ cloudxr_receiver_
  \/ o.create = "cxrError_Success" /\ o.connect = "cxrError_Success"

\* The status Connect() returns.
ConnectReturns(o) ==
  IF cloudxr_receiver_ THEN "cxrError_Success"
  ELSE IF o.create # "cxrError_Success" THEN o.create
  ELSE o.connect

\* Teardown() ran inside Connect().
ConnectTornDown(o) ==
  /\ ~cloudxr_receiver_
  /\ o.create = "cxrError_Success"
  /\ o.connect # "cxrError_Success"

\* Variant: a stream that failed to start stays open.
StreamAfterConnect_LeftOpen(stream, option, r, o) ==
  IF cloudxr_receiver_ THEN stream
  ELSE IF ConnectTornDown(o) THEN FALSE
  ELSE IF option THEN TRUE
  ELSE stream

\* A stream after Connect(): opened and started if its option asks for it,
\* closed and reset if that failed or Teardown() ran.
StreamAfterConnect(stream, option, r, o) ==
  IF cloudxr_receiver_ THEN stream
  ELSE IF ConnectTornDown(o) THEN FALSE
  ELSE IF option THEN r = "OK"
  ELSE stream

\* Variant: a stream that failed leaves its option as it was.
OptionsAfterConnect_Kept(o) == launch_options_

\* launch_options_ after Connect(): a stream that failed switches its
\* option off.
OptionsAfterConnect(o) ==
  IF cloudxr_receiver_ THEN launch_options_
  ELSE [mReceiveAudio |-> launch_options_.mReceiveAudio /\ o.playback = "OK",
        mSendAudio |-> launch_options_.mSendAudio /\ o.recording = "OK"]

ConnectBody(o) ==
  /\ cloudxr_receiver_' = ConnectReceiver(o)
  /\ playback_stream_' =
       StreamAfterConnect(playback_stream_, launch_options_.mReceiveAudio,
                          o.playback, o)
  /\ recording_stream_' =
       StreamAfterConnect(recording_stream_, launch_options_.mSendAudio,
                          o.recording, o)
  /\ launch_options_' = OptionsAfterConnect(o)

\* device_desc as it is handed to cxrCreateReceiver: GetDeviceDesc() takes
\* receiveAudio and sendAudio from the launch options, and a stream that
\* failed switches its flag off.
DeviceDesc(o) ==
  [receiveAudio |-> launch_options_.mReceiveAudio /\ o.playback = "OK",
   sendAudio |-> launch_options_.mSendAudio /\ o.recording = "OK"]

\* cxrCreateReceiver(&desc, &cloudxr_receiver_), with desc.deviceDesc.
CreateReceiverCall(o) ==
  [call |-> "cxrCreateReceiver", status |-> o.create, offset |-> 0,
   receiver |-> cloudxr_receiver_, latched |-> latched_,
   calibrated |-> base_frame_calibrated_, deviceDesc |-> DeviceDesc(o)]

\* Variant: Connect() opens the streams and creates a receiver with one in
\* place too.
ConnectCalls_NoEarlyReturn(o) ==
  <<Call("Connect", ConnectReturns(o), 0)>>
  \o (IF launch_options_.mReceiveAudio
        THEN <<Call("playback_stream", o.playback, 0)>> ELSE <<>>)
  \o (IF launch_options_.mSendAudio
        THEN <<Call("recording_stream", o.recording, 0)>> ELSE <<>>)
  \o <<CreateReceiverCall(o)>>

\* The call of Connect() with the status it returns, and its SDK calls in
\* order.
ConnectCalls(o) ==
  <<Call("Connect", ConnectReturns(o), 0)>>
  \o
  IF cloudxr_receiver_ THEN <<>>
  ELSE (IF launch_options_.mReceiveAudio
          THEN <<Call("playback_stream", o.playback, 0)>>
          ELSE <<>>)
       \o (IF launch_options_.mSendAudio
             THEN <<Call("recording_stream", o.recording, 0)>>
             ELSE <<>>)
       \o <<CreateReceiverCall(o)>>
       \o (IF o.create = "cxrError_Success"
             THEN <<Event("cxrConnect", o.connect, 0, TRUE, latched_)>>
             ELSE <<>>)
       \o (IF ConnectTornDown(o)
             THEN <<Event("cxrDestroyReceiver", "", 0, TRUE, latched_)>>
             ELSE <<>>)

\* -- Teardown() ------------------------------------------------------------
TeardownBody ==
  /\ playback_stream_' = FALSE
  /\ recording_stream_' = FALSE
  /\ cloudxr_receiver_' = FALSE
  /\ UNCHANGED launch_options_

TeardownCalls ==
  IF cloudxr_receiver_ THEN <<Call("cxrDestroyReceiver", "", 0)>> ELSE <<>>

\* -- Latch() ---------------------------------------------------------------
\* Variant: Latch() sets latched_ whatever cxrLatchFrame returned.
LatchBody_AlwaysLatched(st, frame) ==
  IF latched_ \/ ~IsRunning
    THEN UNCHANGED latchVars
    ELSE framesLatched_' = frame /\ latched_' = TRUE

\* Latch(): nothing with a frame already latched or without a receiver,
\* otherwise cxrLatchFrame, which returns st and on success has filled
\* framesLatched_ with frame.
LatchBody(st, frame) ==
  IF latched_ \/ ~IsRunning
    THEN UNCHANGED latchVars
    ELSE LatchEffect(st, frame)

\* The status Latch() returns.
LatchStatus(st) ==
  IF latched_ THEN "cxrError_Success"
  ELSE IF ~IsRunning THEN "cxrError_Receiver_Not_Running"
  ELSE st

\* The call of Latch() with the status it returns, and its SDK call.
LatchCalls(st) ==
  <<Call("Latch", LatchStatus(st), 0)>>
  \o (IF latched_ \/ ~IsRunning
        THEN <<>> ELSE <<Call("cxrLatchFrame", st, 0)>>)

\* -- Release() -------------------------------------------------------------
\* Variant: Release() leaves latched_ as it is.
ReleaseBody_Kept == UNCHANGED latchVars

\* Release(): cxrReleaseFrame if a frame is latched, and latched_ = false.
ReleaseBody ==
  /\ latched_' = FALSE
  /\ UNCHANGED framesLatched_

ReleaseCalls ==
  IF latched_ THEN <<Call("cxrReleaseFrame", "", 0)>> ELSE <<>>

\* -- Render() --------------------------------------------------------------
RenderCalls ==
  IF ~IsRunning \/ ~latched_ THEN <<>> ELSE <<Call("cxrBlitFrame", "", 0)>>

\* -- Stats() ---------------------------------------------------------------
\* frames_until_stats_-- ; the counter is kept at 0 once it is there, where
\* the code lets it run below 0: Stats() only asks whether it is <= 0.
StatsDue == frames_until_stats_ - 1 <= 0

\* After a query that succeeded the counter starts again.
StatsBody(st) ==
  frames_until_stats_' =
    IF StatsDue
      THEN (IF st = "cxrError_Success" THEN StatsFramesBound ELSE 0)
      ELSE frames_until_stats_ - 1

StatsCalls(st) ==
  IF StatsDue THEN <<Call("cxrGetConnectionStats", st, 0)>> ELSE <<>>

\* -- the GL thread: OnDrawFrame, one client call after the other -----------
\* The poses OnDrawFrame pushes and the frames cxrLatchFrame delivers while
\* whole callbacks are followed.
AppPoseMats == {Mat4(2, 0)}

AppLatchedPoses == {StoredPose(Mat4(2, 0)), ZeroMatrix34}

\* launch_options_.using_env_lighting_: default ON.
GetUseEnvLighting == TRUE

\* What a step of a callback leaves alone besides its own variables: the
\* statement-level threads; the results of the other threads' callbacks
\* are gone once the GL thread moves on.
FrameStep ==
  /\ state' = None
  /\ audio' = None
  /\ UNCHANGED stmtVars

\* return(value)
Return(value) ==
  /\ rc' = value
  /\ pcFrame' = "ret"

\* ArCamera_getTrackingState(ar_session_, ar_camera, &camera_tracking_state)
CameraState(tracking) ==
  IF tracking THEN "AR_TRACKING_STATE_TRACKING" ELSE "AR_TRACKING_STATE_PAUSED"

\* OnDrawFrame up to the camera check: nothing while exiting or without an
\* AR session; ArSession_update, whose failure is logged; the camera image
\* goes to the queue, and to the screen unless a calibrated client is
\* running; without camera tracking the frame ends here.
DF_Begin(update, tracking) ==
  /\ pcFrame = "idle"
  /\ IF exiting_ \/ ~ar_session_
       THEN /\ trace' = <<>>
            /\ Return(0)
       ELSE /\ trace' =
                 <<Call("ArCamera_getTrackingState", CameraState(tracking), 0),
                   Call("DrawToQueue", "", 0)>>
                 \o (IF ~IsRunning \/ ~base_frame_calibrated_
                       THEN <<Call("Draw", "", 0)>> ELSE <<>>)
            /\ IF tracking
                 THEN pcFrame' = "catchup" /\ UNCHANGED rc
                 ELSE Return(0)
  /\ FrameStep
  /\ UNCHANGED <<ringVars, latchVars, histVars, pose_offset, have_frame,
                 clientVars, sessionVars>>

\* if (!base_frame_calibrated_ && IsRunning()) { if (Latch() ==
\* cxrError_Success) ... }: the client runs but the base frame has to be
\* calibrated again, and the frames are still pulled.
DF_CatchUpLatch(st, frame) ==
  /\ pcFrame = "catchup"
  /\ IF ~base_frame_calibrated_ /\ IsRunning
       THEN /\ LatchBody(st, frame)
            /\ trace' = trace \o LatchCalls(st)
            /\ pcFrame' = IF LatchStatus(st) = "cxrError_Success"
                            THEN "catchup_release" ELSE "anchors"
       ELSE /\ pcFrame' = "anchors"
            /\ UNCHANGED <<trace, latchVars>>
  /\ FrameStep
  /\ UNCHANGED <<ringVars, histVars, pose_offset, have_frame, clientVars,
                 sessionVars, rc>>

\* ... Release();
DF_CatchUpRelease ==
  /\ pcFrame = "catchup_release"
  /\ ReleaseBody
  /\ trace' = trace \o ReleaseCalls
  /\ pcFrame' = "anchors"
  /\ FrameStep
  /\ UNCHANGED <<ringVars, histVars, pose_offset, have_frame, clientVars,
                 sessionVars, rc>>

\* UpdateImageAnchors(): with an image database, the first tracked image
\* calibrates the base frame.  Then the branch on base_frame_calibrated_.
DF_UpdateImageAnchors(found) ==
  /\ pcFrame = "anchors"
  /\ base_frame_calibrated_' =
       (base_frame_calibrated_ \/ (using_image_anchors_ /\ found))
  /\ anchor_' = (anchor_ \/ (base_frame_calibrated_' /\ ~base_frame_calibrated_))
  /\ pcFrame' = IF base_frame_calibrated_' THEN "connect" ELSE "calibrate"
  /\ FrameStep
  /\ UNCHANGED <<ringVars, latchVars, histVars, pose_offset, have_frame,
                 clientVars, exiting_, ar_session_, using_image_anchors_,
                 trace, rc>>

\* if (!IsRunning()) { status = Connect(); if (status != cxrError_Success)
\* { exiting_ = true; return (int)status; } }
DF_Connect(o) ==
  /\ pcFrame = "connect"
  /\ IF ~IsRunning
       THEN /\ ConnectBody(o)
            /\ trace' = trace \o ConnectCalls(o)
            /\ IF ConnectReturns(o) # "cxrError_Success"
                 THEN /\ exiting_' = TRUE
                      /\ Return(AsInt(ConnectReturns(o)))
                 ELSE /\ pcFrame' = "latch"
                      /\ UNCHANGED <<exiting_, rc>>
       ELSE /\ pcFrame' = "latch"
            /\ UNCHANGED <<cloudxr_receiver_, playback_stream_,
                           recording_stream_, launch_options_, trace,
                           exiting_, rc>>
  /\ FrameStep
  /\ UNCHANGED <<ringVars, latchVars, histVars, pose_offset, have_frame,
                 frames_until_stats_, ar_session_, using_image_anchors_,
                 anchor_, base_frame_calibrated_>>

\* const cxrError status = Latch(); cxrError_Receiver_Not_Running ends the
\* application; have_frame = (status == cxrError_Success).
DF_Latch(st, frame) ==
  /\ pcFrame = "latch"
  /\ LatchBody(st, frame)
  /\ trace' = trace \o LatchCalls(st)
  /\ have_frame' = (LatchStatus(st) = "cxrError_Success")
  /\ IF LatchStatus(st) = "cxrError_Receiver_Not_Running"
       THEN /\ exiting_' = TRUE
            /\ Return(AsInt(LatchStatus(st)))
       ELSE /\ pcFrame' = "offset"
            /\ UNCHANGED <<exiting_, rc>>
  /\ FrameStep
  /\ UNCHANGED <<ringVars, histVars, pose_offset, clientVars, ar_session_,
                 using_image_anchors_, anchor_, base_frame_calibrated_>>

\* Variant: without a frame OnDrawFrame goes on behind the push.
DF_DetermineOffset_SkipsPush ==
  /\ pcFrame = "offset"
  /\ pose_offset' =
       IF have_frame
         THEN DetermineOffsetResult(pose_matrix_, current_idx_, framesLatched_)
         ELSE [offset |-> 0, examined |-> 0]
  /\ trace' = trace \o <<Call("Draw", "", pose_offset'.offset)>>
  /\ pcFrame' = IF have_frame THEN "push" ELSE "calibrate"
  /\ FrameStep
  /\ UNCHANGED <<ringVars, latchVars, histVars, have_frame, clientVars,
                 sessionVars, rc>>

\* pose_offset = have_frame ? DetermineOffset() : 0, and
\* background_renderer_.Draw(ar_session_, ar_frame_, pose_offset).
DF_DetermineOffset ==
  /\ pcFrame = "offset"
  /\ pose_offset' =
       IF have_frame
         THEN DetermineOffsetResult(pose_matrix_, current_idx_, framesLatched_)
         ELSE [offset |-> 0, examined |-> 0]
  /\ trace' =
       trace
       \o (IF have_frame
             THEN <<Call("DetermineOffset", "", pose_offset'.offset)>>
             ELSE <<>>)
       \o <<Call("Draw", "", pose_offset'.offset)>>
  /\ pcFrame' = "push"
  /\ FrameStep
  /\ UNCHANGED <<ringVars, latchVars, histVars, have_frame, clientVars,
                 sessionVars, rc>>

\* Variant: Render(), Release() and Stats() are called without a frame too.
AfterPush_Always == "render"

\* if (have_frame) { Render(); Release(); Stats(); }: where OnDrawFrame
\* goes on behind the light estimate.
AfterPush == IF have_frame THEN "render" ELSE "calibrate"

\* Variant: the pose goes into the slot DetermineOffset found.
DF_SetPoseMatrix_AtOffset(pm, light) ==
  /\ pcFrame = "push"
  /\ pose_matrix_' =
       RingAfterPush(pose_matrix_,
                     OffsetIdx(current_idx_, pose_offset.offset), pm)
  /\ current_idx_' = NextIdx(current_idx_)
  /\ HistAfterPush(pm, current_idx_)
  /\ trace' =
       trace \o <<Call("SetPoseMatrix", "", 0)>>
       \o (IF light /\ GetUseEnvLighting
             THEN <<Call("cxrSendLightProperties", "", 0)>> ELSE <<>>)
  /\ pcFrame' = AfterPush
  /\ FrameStep
  /\ UNCHANGED <<latchVars, pose_offset, have_frame, clientVars, sessionVars,
                 rc>>

\* SetPoseMatrix(base_frame_ * inverse(view_mat)), then the light estimate:
\* UpdateLightProps() if it is valid and environment lighting is on.
DF_SetPoseMatrix(pm, light) ==
  /\ pcFrame = "push"
  /\ pose_matrix_' = RingAfterPush(pose_matrix_, current_idx_, pm)
  /\ current_idx_' = NextIdx(current_idx_)
  /\ HistAfterPush(pm, current_idx_)
  /\ trace' =
       trace \o <<Call("SetPoseMatrix", "", 0)>>
       \o (IF light /\ GetUseEnvLighting
             THEN <<Call("cxrSendLightProperties", "", 0)>> ELSE <<>>)
  /\ pcFrame' = AfterPush
  /\ FrameStep
  /\ UNCHANGED <<latchVars, pose_offset, have_frame, clientVars, sessionVars,
                 rc>>

\* if (have_frame) { Render(color_correction); Release(); Stats(); }
DF_Render ==
  /\ pcFrame = "render"
  /\ trace' = trace \o RenderCalls
  /\ pcFrame' = "release"
  /\ FrameStep
  /\ UNCHANGED <<ringVars, latchVars, histVars, pose_offset, have_frame,
                 clientVars, sessionVars, rc>>

DF_Release ==
  /\ pcFrame = "release"
  /\ ReleaseBody
  /\ trace' = trace \o ReleaseCalls
  /\ pcFrame' = "stats"
  /\ FrameStep
  /\ UNCHANGED <<ringVars, histVars, pose_offset, have_frame, clientVars,
                 sessionVars, rc>>

DF_Stats(st) ==
  /\ pcFrame = "stats"
  /\ StatsBody(st)
  /\ trace' = trace \o StatsCalls(st)
  /\ pcFrame' = "calibrate"
  /\ FrameStep
  /\ UNCHANGED <<ringVars, latchVars, histVars, pose_offset, have_frame,
                 cloudxr_receiver_, playback_stream_, recording_stream_,
                 launch_options_, sessionVars, rc>>

\* The end of OnDrawFrame: done if the base frame is calibrated or images
\* calibrate it; otherwise a tracked anchor_ calibrates it, and the planes
\* are drawn.
DF_Calibrate(anchorTracking) ==
  /\ pcFrame = "calibrate"
  /\ base_frame_calibrated_' =
       IF base_frame_calibrated_ \/ using_image_anchors_
         THEN base_frame_calibrated_
         ELSE anchor_ /\ anchorTracking
  /\ Return(0)
  /\ FrameStep
  /\ UNCHANGED <<ringVars, latchVars, histVars, pose_offset, have_frame,
                 clientVars, exiting_, ar_session_, using_image_anchors_,
                 anchor_, trace>>

\* OnDrawFrame has returned rc to Java; its locals are gone.
DF_Return ==
  /\ pcFrame = "ret"
  /\ pcFrame' = "idle"
  /\ trace' = <<>>
  /\ rc' = 0
  /\ pose_offset' = None
  /\ have_frame' = FALSE
  /\ FrameStep
  /\ UNCHANGED <<ringVars, latchVars, histVars, clientVars, sessionVars>>

\* -- the other lifecycle callbacks, each run to its end --------------------
\* What a callback that is no OnDrawFrame leaves alone; it runs between
\* two OnDrawFrame, and its history is its own.
CallbackStep ==
  /\ pcFrame = "idle"
  /\ FrameStep
  /\ UNCHANGED <<ringVars, histVars, pose_offset, have_frame, pcFrame, rc>>

\* new HelloArApplication(asset_manager), the instance before it deleted
\* (~HelloArApplication, ~CloudXRClient with its Teardown()): every member
\* has its initial value again, and exiting_ = false.
Construct ==
  /\ pcFrame = "idle"
  /\ pcFrame' = "idle"
  /\ pose_matrix_' = [s \in Slots |-> ZeroMatrix34]
  /\ current_idx_' = 0
  /\ framesLatched_' = ZeroMatrix34
  /\ latched_' = FALSE
  /\ state_mutex_' = "none"
  /\ hist' = <<>>
  /\ written' = <<>>
  /\ state' = None
  /\ pose_offset' = None
  /\ pcRender' = "idle"
  /\ pose_mat' = NoPose
  /\ have_frame' = FALSE
  /\ offset' = 0
  /\ pre' = NoPre
  /\ nAssigned' = 0
  /\ pcCallback' = "idle"
  /\ idx' = 0
  /\ nRead' = 0
  /\ copy' = ZeroMatrix34
  /\ cloudxr_receiver_' = FALSE
  /\ playback_stream_' = FALSE
  /\ recording_stream_' = FALSE
  /\ launch_options_' = [mReceiveAudio |-> TRUE, mSendAudio |-> FALSE]
  /\ frames_until_stats_' = StatsFramesBound
  /\ exiting_' = FALSE
  /\ ar_session_' = FALSE
  /\ using_image_anchors_' = FALSE
  /\ anchor_' = FALSE
  /\ base_frame_calibrated_' = FALSE
  /\ trace' = <<>>
  /\ rc' = 0
  /\ audio' = None

\* HandleLaunchOptions(cmdline), SetArgs(args): the command line sets the
\* audio options.
HandleLaunchOptions(receive, send) ==
  /\ ~IsRunning
  /\ launch_options_' = [mReceiveAudio |-> receive, mSendAudio |-> send]
  /\ trace' = <<>>
  /\ CallbackStep
  /\ UNCHANGED <<latchVars, cloudxr_receiver_, playback_stream_,
                 recording_stream_, frames_until_stats_, sessionVars>>

\* OnResume(): the first one creates the AR session, and with an image
\* database on the device the base frame is calibrated from images.
OnResume(imagedb) ==
  /\ ar_session_' = TRUE
  /\ using_image_anchors_' = (using_image_anchors_ \/ (~ar_session_ /\ imagedb))
  /\ trace' = <<>>
  /\ CallbackStep
  /\ UNCHANGED <<latchVars, clientVars, exiting_, anchor_,
                 base_frame_calibrated_>>

\* OnPause(): ArSession_pause and cloudxr_client_->Teardown().
OnPause ==
  /\ TeardownBody
  /\ trace' = <<>>
  /\ CallbackStep
  /\ UNCHANGED <<latchVars, frames_until_stats_, sessionVars>>

\* HandleTouch(x, y): nothing unless the client is running, else one
\* touch event to the server.
HandleTouchCalls ==
  IF ~IsRunning THEN <<>> ELSE <<Call("cxrSendInputEvent", "", 0)>>

\* The kind of press OnTouched is given.
Press(longPress) == IF longPress THEN "longPress" ELSE "press"

\* Variant: every short press goes to the server, calibrated or not.
OnTouchedCalls_AnyPress(longPress) ==
  <<Call("OnTouched", Press(longPress), 0)>>
  \o (IF ~longPress /\ IsRunning
        THEN <<Call("HandleTouch", "", 0)>> \o HandleTouchCalls
        ELSE <<>>)

\* The calls of OnTouched(x, y, longPress): HandleTouch if the base frame
\* is calibrated, the press is short and the client is running.
OnTouchedCalls(longPress) ==
  <<Call("OnTouched", Press(longPress), 0)>>
  \o (IF base_frame_calibrated_ /\ ~longPress /\ IsRunning
        THEN <<Call("HandleTouch", "", 0)>> \o HandleTouchCalls
        ELSE <<>>)

\* OnTouched(x, y, longPress): a touch goes to the server once the base
\* frame is calibrated; a long press drops the calibration and the anchor;
\* otherwise a hit on a plane or point sets anchor_.
OnTouched(longPress, hit) ==
  /\ trace' = OnTouchedCalls(longPress)
  /\ IF base_frame_calibrated_ /\ ~longPress
       THEN UNCHANGED <<anchor_, base_frame_calibrated_>>
       ELSE IF longPress
         THEN /\ anchor_' = FALSE
              /\ base_frame_calibrated_' = FALSE
         ELSE /\ anchor_' = (anchor_ \/ (ar_session_ /\ hit))
              /\ UNCHANGED base_frame_calibrated_
  /\ CallbackStep
  /\ UNCHANGED <<latchVars, clientVars, exiting_, ar_session_,
                 using_image_anchors_>>

\* -- the callbacks of the receiver and of oboe, on their threads -----------
\* What such a callback leaves alone.
ThreadStep ==
  UNCHANGED <<ringVars, latchVars, histVars, pose_offset, have_frame,
              stmtVars, clientVars, sessionVars, frameVars>>

\* GetTrackingState(state), called by the receiver.
CB_GetTrackingState ==
  /\ cloudxr_receiver_
  /\ state' = TrackingState(pose_matrix_, current_idx_)
  /\ audio' = None
  /\ ThreadStep

\* What an audio callback did: what it returned, and whether it handed the
\* audio on (playback_stream_->write, cxrSendAudio).
AudioResult(call, ret, passed) ==
  [call |-> call, ret |-> ret, passed |-> passed,
   receiver |-> cloudxr_receiver_]

\* Variant: RenderAudio() looks at the stream only.
RenderAudioResult_StreamOnly ==
  IF ~playback_stream_
    THEN AudioResult("RenderAudio", "cxrFalse", FALSE)
    ELSE AudioResult("RenderAudio", "cxrTrue", TRUE)

\* RenderAudio(audioFrame), called by the receiver.
RenderAudioResult ==
  IF ~playback_stream_ \/ exiting_
    THEN AudioResult("RenderAudio", "cxrFalse", FALSE)
    ELSE AudioResult("RenderAudio", "cxrTrue", TRUE)

CB_RenderAudio ==
  /\ cloudxr_receiver_
  /\ audio' = RenderAudioResult
  /\ state' = None
  /\ ThreadStep

\* onAudioReady(oboeStream, audioData, numFrames), called by oboe for the
\* started recording stream.
onAudioReadyResult ==
  IF ~recording_stream_ \/ exiting_
    THEN AudioResult("onAudioReady", "Stop", FALSE)
    ELSE AudioResult("onAudioReady", "Continue", TRUE)

CB_onAudioReady ==
  /\ recording_stream_
  /\ audio' = onAudioReadyResult
  /\ state' = None
  /\ ThreadStep

\* -- the application ---------------------------------------------------------
NextApp ==
  \/ Construct
  \/ \E receive \in BOOLEAN, send \in BOOLEAN :
       HandleLaunchOptions(receive, send)
  \/ \E imagedb \in BOOLEAN : OnResume(imagedb)
  \/ OnPause
  \/ \E longPress \in BOOLEAN, hit \in BOOLEAN : OnTouched(longPress, hit)
  \/ \E update \in {"AR_SUCCESS", "AR_ERROR"}, tracking \in BOOLEAN :
       DF_Begin(update, tracking)
  \/ \E st \in LatchErrors, frame \in AppLatchedPoses :
       DF_CatchUpLatch(st, frame)
  \/ DF_CatchUpRelease
  \/ \E found \in BOOLEAN : DF_UpdateImageAnchors(found)
  \/ \E o \in ConnectResults : DF_Connect(o)
  \/ \E st \in LatchErrors, frame \in AppLatchedPoses : DF_Latch(st, frame)
  \/ DF_DetermineOffset
  \/ \E pm \in AppPoseMats, light \in BOOLEAN : DF_SetPoseMatrix(pm, light)
  \/ DF_Render
  \/ DF_Release
  \/ \E st \in ConnectErrors : DF_Stats(st)
  \/ \E anchorTracking \in BOOLEAN : DF_Calibrate(anchorTracking)
  \/ DF_Return
  \/ CB_GetTrackingState
  \/ CB_RenderAudio
  \/ CB_onAudioReady

SpecApp == Init /\ [][NextApp]_vars

\* -- the client on its own: its methods called in any order ----------------
\* What a call of a client method leaves alone: the application around the
\* client, the ring and the statement-level threads.
ClientStep ==
  /\ pcFrame = "idle"
  /\ state' = None
  /\ audio' = None
  /\ UNCHANGED <<stmtVars, ringVars, histVars, pose_offset, have_frame,
                 sessionVars, pcFrame, rc>>

Client_Connect(o) ==
  /\ ConnectBody(o)
  /\ trace' = ConnectCalls(o)
  /\ ClientStep
  /\ UNCHANGED <<latchVars, frames_until_stats_>>

Client_Teardown ==
  /\ TeardownBody
  /\ trace' = <<Call("Teardown", "", 0)>> \o TeardownCalls
  /\ ClientStep
  /\ UNCHANGED <<latchVars, frames_until_stats_>>

Client_Latch(st, frame) ==
  /\ LatchBody(st, frame)
  /\ trace' = LatchCalls(st)
  /\ ClientStep
  /\ UNCHANGED clientVars

Client_Release ==
  /\ ReleaseBody
  /\ trace' = <<Call("Release", "", 0)>> \o ReleaseCalls
  /\ ClientStep
  /\ UNCHANGED clientVars

Client_Render ==
  /\ trace' = <<Call("Render", "", 0)>> \o RenderCalls
  /\ ClientStep
  /\ UNCHANGED <<latchVars, clientVars>>

Client_Stats(st) ==
  /\ StatsBody(st)
  /\ trace' = <<Call("Stats", "", 0)>> \o StatsCalls(st)
  /\ ClientStep
  /\ UNCHANGED <<latchVars, cloudxr_receiver_, playback_stream_,
                 recording_stream_, launch_options_>>

NextClient ==
  \/ \E o \in ConnectResults : Client_Connect(o)
  \/ Client_Teardown
  \/ \E st \in LatchErrors, frame \in AppLatchedPoses : Client_Latch(st, frame)
  \/ Client_Release
  \/ Client_Render
  \/ \E st \in ConnectErrors : Client_Stats(st)

SpecClient == Init /\ [][NextClient]_vars

\* -- Connect() and Teardown(), statement by statement, and the audio thread --
\* What a step of the GL thread inside Connect() or Teardown() leaves alone.
ConnectStep ==
  /\ state' = None
  /\ audio' = None
  /\ UNCHANGED <<stmtVars, ringVars, latchVars, histVars, pose_offset,
                 have_frame, frames_until_stats_, ar_session_,
                 using_image_anchors_, anchor_, base_frame_calibrated_, trace>>

\* OnDrawFrame calls Connect(): if (cloudxr_receiver_) return
\* cxrError_Success; device_desc = GetDeviceDesc().
Connect_Begin ==
  /\ pcFrame = "idle"
  /\ ~exiting_
  /\ pcFrame' = IF cloudxr_receiver_ THEN "idle" ELSE "c_playback"
  /\ ConnectStep
  /\ UNCHANGED <<cloudxr_receiver_, playback_stream_, recording_stream_,
                 launch_options_, exiting_, rc>>

\* if (device_desc.receiveAudio) { open, size and start the playback
\* stream; on an error close and reset it and switch receiveAudio off }
Connect_Playback(r) ==
  /\ pcFrame = "c_playback"
  /\ IF launch_options_.mReceiveAudio
       THEN /\ playback_stream_' = (r = "OK")
            /\ launch_options_' =
                 [launch_options_ EXCEPT !.mReceiveAudio = (r = "OK")]
       ELSE UNCHANGED <<playback_stream_, launch_options_>>
  /\ pcFrame' = "c_recording"
  /\ ConnectStep
  /\ UNCHANGED <<cloudxr_receiver_, recording_stream_, exiting_, rc>>

\* if (device_desc.sendAudio) { open and start the recording stream, whose
\* data callback is this client; on an error close and reset it and switch
\* sendAudio off }
Connect_Recording(r) ==
  /\ pcFrame = "c_recording"
  /\ IF launch_options_.mSendAudio
       THEN /\ recording_stream_' = (r = "OK")
            /\ launch_options_' =
                 [launch_options_ EXCEPT !.mSendAudio = (r = "OK")]
       ELSE UNCHANGED <<recording_stream_, launch_options_>>
  /\ pcFrame' = "c_create"
  /\ ConnectStep
  /\ UNCHANGED <<cloudxr_receiver_, playback_stream_, exiting_, rc>>

\* err = cxrCreateReceiver(&desc, &cloudxr_receiver_);
\* if (err != cxrError_Success) return err;
Connect_CreateReceiver(st) ==
  /\ pcFrame = "c_create"
  /\ cloudxr_receiver_' = (st = "cxrError_Success")
  /\ rc' = AsInt(st)
  /\ pcFrame' = IF st = "cxrError_Success" THEN "c_connect" ELSE "c_return"
  /\ ConnectStep
  /\ UNCHANGED <<playback_stream_, recording_stream_, launch_options_,
                 exiting_>>

\* err = cxrConnect(...); if (err != cxrError_Success) { Teardown();
\* return err; }
Connect_Connect(st) ==
  /\ pcFrame = "c_connect"
  /\ rc' = AsInt(st)
  /\ pcFrame' = IF st = "cxrError_Success" THEN "c_return" ELSE "t_playback"
  /\ ConnectStep
  /\ UNCHANGED <<cloudxr_receiver_, playback_stream_, recording_stream_,
                 launch_options_, exiting_>>

\* Connect() has returned to OnDrawFrame: if (status != cxrError_Success)
\* { exiting_ = true; return (int)status; }
Connect_Return ==
  /\ pcFrame = "c_return"
  /\ exiting_' = (exiting_ \/ rc # 0)
  /\ rc' = 0
  /\ pcFrame' = "idle"
  /\ ConnectStep
  /\ UNCHANGED <<cloudxr_receiver_, playback_stream_, recording_stream_,
                 launch_options_>>

\* OnPause() calls Teardown().
Teardown_Begin ==
  /\ pcFrame = "idle"
  /\ pcFrame' = "t_playback"
  /\ ConnectStep
  /\ UNCHANGED <<cloudxr_receiver_, playback_stream_, recording_stream_,
                 launch_options_, exiting_, rc>>

\* if (playback_stream_) { close, reset }
Teardown_Playback ==
  /\ pcFrame = "t_playback"
  /\ playback_stream_' = FALSE
  /\ pcFrame' = "t_recording"
  /\ ConnectStep
  /\ UNCHANGED <<cloudxr_receiver_, recording_stream_, launch_options_,
                 exiting_, rc>>

\* if (recording_stream_) { close, reset }
Teardown_Recording ==
  /\ pcFrame = "t_recording"
  /\ recording_stream_' = FALSE
  /\ pcFrame' = "t_receiver"
  /\ ConnectStep
  /\ UNCHANGED <<cloudxr_receiver_, playback_stream_, launch_options_,
                 exiting_, rc>>

\* if (cloudxr_receiver_) { cxrDestroyReceiver; cloudxr_receiver_ = nullptr }
\* and back to the caller: Connect() with its error, or OnPause().
Teardown_Receiver ==
  /\ pcFrame = "t_receiver"
  /\ cloudxr_receiver_' = FALSE
  /\ pcFrame' = IF rc # 0 THEN "c_return" ELSE "idle"
  /\ ConnectStep
  /\ UNCHANGED <<playback_stream_, recording_stream_, launch_options_,
                 exiting_, rc>>

NextAudio ==
  \/ Construct
  \/ \E receive \in BOOLEAN, send \in BOOLEAN :
       HandleLaunchOptions(receive, send)
  \/ Connect_Begin
  \/ \E r \in OboeResults : Connect_Playback(r)
  \/ \E r \in OboeResults : Connect_Recording(r)
  \/ \E st \in ConnectErrors : Connect_CreateReceiver(st)
  \/ \E st \in ConnectErrors : Connect_Connect(st)
  \/ Connect_Return
  \/ Teardown_Begin
  \/ Teardown_Playback
  \/ Teardown_Recording
  \/ Teardown_Receiver
  \/ CB_RenderAudio
  \/ CB_onAudioReady

SpecAudio == Init /\ [][NextAudio]_vars

\* -- DetermineOffset at the tolerance --------------------------------------
\* Poses along one axis, one unit apart: next to each other they are
\* closer than Eps, the outer two are exactly Eps apart.
TolerancePoseMats == {Mat4(2, 0), Mat4(3, 0), Mat4(4, 0)}

\* The frames the server rendered with these poses.
ToleranceLatchedPoses == {StoredPose(p) : p \in TolerancePoseMats}

NextTolerance ==
  \/ \E pm \in TolerancePoseMats : SetPoseMatrix(pm)
  \/ \E frame \in ToleranceLatchedPoses : Latch("cxrError_Success", frame)
  \/ DetermineOffset
  \/ Release

SpecTolerance == Init /\ [][NextTolerance]_vars

\* ======================================================================
\* Properties
\* ======================================================================
\* The cxrMatrix34 of a glm pose: m[i][j] is row i, column j of the
\* transform, and glm stores column j as pose_mat[j].
AsMatrix34(pm) == [i \in Rows |-> [j \in Cols |-> pm[j][i]]]

\* The position and orientation of a glm pose.
PoseOf(pm) ==
  [position |-> <<pm[3][0], pm[3][1], pm[3][2]>>,
   rotation |-> <<<<pm[0][0], pm[1][0], pm[2][0]>>,
                  <<pm[0][1], pm[1][1], pm[2][1]>>,
                  <<pm[0][2], pm[1][2], pm[2][2]>>>>]

\* a and b differ by at least Eps in some component.
DiffersByEps(a, b) ==
  \E i \in Rows, j \in Cols : fabsf(a[i][j] - b[i][j]) >= Eps

\* The sample written k pushes before the most recent push.
Sample(k) == AsMatrix34(hist[k + 1])

\* The pushes in the history differ pairwise by at least Eps in some
\* component, and none is within Eps of the zero matrix.
PushesFarApart ==
  /\ \A a, b \in 1..Len(hist) :
       a # b => DiffersByEps(AsMatrix34(hist[a]), AsMatrix34(hist[b]))
  /\ \A a \in 1..Len(hist) : DiffersByEps(AsMatrix34(hist[a]), ZeroMatrix34)

\* The pushes in the history are pairwise different.
PushesDistinct == \A a, b \in 1..Len(hist) : a # b => hist[a] # hist[b]

\* DetermineOffset has just returned, after N pushes with 1 <= N <= kQueueLen
\* that are far apart.
C1_Case ==
  /\ pose_offset # None
  /\ Len(hist) \in 1..kQueueLen
  /\ PushesFarApart

\* C1 as stated: DetermineOffset, called with a latched pose equal to the
\* sample written k pushes before the most recent one, returns k.
C1_Original ==
  C1_Case =>
    \A k \in 0..(Len(hist) - 1) :
      framesLatched_ = Sample(k) => pose_offset.offset = k

\* C1 amended: after N <= kQueueLen far-apart pushes, DetermineOffset called
\* with a latched pose equal to the sample written k pushes before the most
\* recent one returns (k + 1) mod kQueueLen: k + 1 for the newest
\* kQueueLen - 1 samples and 0 for the sample in the slot at the cursor.
C1_OffsetIsAgePlusOne ==
  C1_Case =>
    \A k \in 0..(Len(hist) - 1) :
      framesLatched_ = Sample(k) => pose_offset.offset = (k + 1) % kQueueLen

\* DetermineOffset returned 2 for the sample before the newest of a full
\* ring of far-apart pushes.
C1_Witness ==
  /\ C1_Case
  /\ Len(hist) = kQueueLen
  /\ framesLatched_ = Sample(1)
  /\ pose_offset.offset = 2

\* Every component of a is closer than Eps to the one of b.
WithinEps(a, b) ==
  \A i \in Rows, j \in Cols : fabsf(a[i][j] - b[i][j]) < Eps

\* The least element of a non-empty set of integers.
Least(S) == CHOOSE x \in S : \A y \in S : x <= y

\* The slot written d pushes before the most recent push.
SlotWrittenAgo(d) == written[d + 1]

\* C2 as stated: the slot DetermineOffset compares at offset d is the slot
\* written d pushes before the most recent push, and the result is the
\* smallest such d whose sample matches the latched pose.
C2_Original ==
  pose_offset # None =>
    /\ \A d \in 0..(Len(written) - 1) :
         OffsetIdx(current_idx_, d) = SlotWrittenAgo(d)
    /\ LET hits == {d \in 0..(Len(written) - 1) :
                      WithinEps(pose_matrix_[SlotWrittenAgo(d)], framesLatched_)}
       IN hits # {} => pose_offset.offset = Least(hits)

\* The slot kQueueLen - d places behind the cursor, cyclically.
SlotBehindCursor(d) == (current_idx_ + kQueueLen - d) % kQueueLen

\* C2 amended: DetermineOffset scans the ring backwards from the cursor:
\* the slot it compares at offset 0 is the slot at the cursor (the one
\* SetPoseMatrix writes next, the least recently written), the slot at offset
\* d >= 1 is the slot written d - 1 pushes before the most recent push, and
\* the result is the smallest d in 0..kQueueLen-1 whose sample matches the
\* latched pose (0 when none does).
C2_ScansBackFromCursor ==
  pose_offset # None =>
    /\ OffsetIdx(current_idx_, 0) = current_idx_
    /\ \A d \in 1..Len(written) :
         d < kQueueLen => OffsetIdx(current_idx_, d) = SlotWrittenAgo(d - 1)
    /\ Len(written) = kQueueLen => current_idx_ = written[kQueueLen]
    /\ Len(written) < kQueueLen =>
         \A d \in 1..Len(written) : current_idx_ # written[d]
    /\ LET hits == {d \in 0..(kQueueLen - 1) :
                      WithinEps(pose_matrix_[SlotBehindCursor(d)], framesLatched_)}
       IN pose_offset.offset = IF hits = {} THEN 0 ELSE Least(hits)

\* DetermineOffset returned 1 on a full ring whose slots at offsets 1 and 2
\* both match the latched pose while the slot at the cursor does not.
C2_Witness ==
  /\ pose_offset # None
  /\ Len(written) = kQueueLen
  /\ WithinEps(pose_matrix_[SlotBehindCursor(1)], framesLatched_)
  /\ WithinEps(pose_matrix_[SlotBehindCursor(2)], framesLatched_)
  /\ ~WithinEps(pose_matrix_[SlotBehindCursor(0)], framesLatched_)
  /\ pose_offset.offset = 1

\* C5: after at least one push, GetTrackingState reports the pose of the
\* most recent push, also when the cursor has wrapped to 0.
C5_ReportsNewestPose ==
  (state # None /\ Len(hist) >= 1) => state = PoseOf(hist[1])

\* GetTrackingState returned with the cursor wrapped to 0 after a push.
C5_Witness ==
  /\ state # None
  /\ Len(hist) >= kQueueLen
  /\ current_idx_ = 0
  /\ state = PoseOf(hist[1])

\* The ring holds exactly the last min(N, kQueueLen) pushes, each as it was
\* written, and every other slot is still zero.
RingHoldsLastPushes ==
  /\ Len(written) = IF Len(hist) < kQueueLen THEN Len(hist) ELSE kQueueLen
  /\ \A k \in 0..(Len(written) - 1) :
       pose_matrix_[SlotWrittenAgo(k)] = Sample(k)
  /\ \A s \in Slots :
       (\A k \in 1..Len(written) : written[k] # s) =>
         pose_matrix_[s] = ZeroMatrix34

\* DetermineOffset found no match: it examined every slot and returned 0.
FoundNoMatch ==
  /\ \A s \in Slots : ~WithinEps(pose_matrix_[s], framesLatched_)
  /\ pose_offset.examined = kQueueLen
  /\ pose_offset.offset = 0

\* DetermineOffset has just been asked for the pose pushed kQueueLen pushes
\* before the most recent one.
C7_AskedForOverwritten ==
  /\ pose_offset # None
  /\ Len(hist) = kQueueLen + 1
  /\ framesLatched_ = Sample(kQueueLen)

\* C7 as stated: the ring holds the last min(N, kQueueLen) pushes, and after
\* kQueueLen + 1 pushes of pairwise distinct poses the first is in no slot
\* and DetermineOffset finds no match for it.
C7_Original ==
  /\ RingHoldsLastPushes
  /\ (C7_AskedForOverwritten /\ PushesDistinct) =>
       /\ \A s \in Slots : pose_matrix_[s] # Sample(kQueueLen)
       /\ FoundNoMatch

\* C7 amended: the ring holds the last min(N, kQueueLen) pushes, and after
\* kQueueLen + 1 pushes of poses that pairwise differ by at least 0.0001 in
\* some component the first is in no slot and DetermineOffset finds no match
\* for it.
C7_OverwrittenIsGone ==
  /\ RingHoldsLastPushes
  /\ (C7_AskedForOverwritten /\ PushesFarApart) =>
       /\ \A s \in Slots : pose_matrix_[s] # Sample(kQueueLen)
       /\ FoundNoMatch

\* DetermineOffset was asked for the overwritten first of kQueueLen + 1
\* far-apart pushes.
C7_Witness ==
  /\ C7_AskedForOverwritten
  /\ PushesFarApart
  /\ FoundNoMatch

\* C8: when no slot matches the latched pose DetermineOffset returns 0 after
\* examining all kQueueLen slots, and its result always lies in
\* 0..kQueueLen-1.
C8_DefaultsToZero ==
  pose_offset # None =>
    /\ pose_offset.offset \in 0..(kQueueLen - 1)
    /\ (\A s \in Slots : ~WithinEps(pose_matrix_[s], framesLatched_)) =>
         (pose_offset.offset = 0 /\ pose_offset.examined = kQueueLen)

\* DetermineOffset returned for a latched pose no slot of a full ring matches.
C8_Witness ==
  /\ pose_offset # None
  /\ Len(hist) >= kQueueLen
  /\ \A s \in Slots : ~WithinEps(pose_matrix_[s], framesLatched_)
  /\ pose_offset.offset = 0
  /\ pose_offset.examined = kQueueLen

\* The sample of the newest completed push, zero before the first.
NewestSample == IF hist = <<>> THEN ZeroMatrix34 ELSE Sample(0)

\* The matrices a slot holds between two pushes.
WholeSamples == {AsMatrix34(pm) : pm \in ConcPoseMats} \cup {ZeroMatrix34}

\* The k-th component in the order cxrMatrixToVecQuat reads them.
Component(m, k) == m[k \div 4][k % 4]

\* C3: however SetPoseMatrix and GetTrackingState interleave, the twelve
\* components GetTrackingState converts all come from one SetPoseMatrix call
\* (or all from the initial state), namely the one that moved the cursor to
\* the value idx was computed from; it never converts a mix of two writes.
C3_NoTornPose ==
  /\ pcCallback = "read" =>
       \A k \in 0..(nRead - 1) : Component(copy, k) = Component(NewestSample, k)
  /\ pcCallback = "unlock" =>
       /\ copy \in WholeSamples
       /\ copy = NewestSample
       /\ state = cxrMatrixToVecQuat(NewestSample)

\* GetTrackingState converted a pushed pose while the render thread waits
\* for the mutex in SetPoseMatrix.
C3_Witness ==
  /\ pcCallback = "unlock"
  /\ pcRender = "lock"
  /\ hist # <<>>
  /\ state = PoseOf(hist[1])

\* Positions at which the render thread is inside the body of SetPoseMatrix,
\* and the callback thread inside the block of GetTrackingState.
InSetPoseMatrix == pcRender \in {"assign", "unlock"}
InGetTrackingState == pcCallback \in {"index", "read", "unlock"}
InDetermineOffset == pcRender = "scan"

\* C4 as stated: every access to the ring slots or the cursor in
\* SetPoseMatrix, GetTrackingState and DetermineOffset happens with
\* state_mutex_ held by the accessing thread.
C4_Original ==
  /\ InSetPoseMatrix => state_mutex_ = "render"
  /\ InGetTrackingState => state_mutex_ = "callback"
  /\ InDetermineOffset => state_mutex_ = "render"

\* C4 amended: every access to the ring slots or the cursor in SetPoseMatrix
\* and GetTrackingState happens with state_mutex_ held by the accessing
\* thread; DetermineOffset reads them without taking the mutex (it runs on
\* the render thread, so the mutex is then free or held by the callback).
C4_WriterAndCallbackLocked ==
  /\ InSetPoseMatrix => state_mutex_ = "render"
  /\ InGetTrackingState => state_mutex_ = "callback"
  /\ InDetermineOffset => state_mutex_ # "render"

\* DetermineOffset compares a slot while GetTrackingState reads one under
\* the mutex.
C4_Witness ==
  /\ InDetermineOffset
  /\ offset = 1
  /\ pcCallback = "read"
  /\ nRead = 6
  /\ state_mutex_ = "callback"

\* The slot SetPoseMatrix is writing was the least recently written one when
\* it took the mutex: the last of all written slots, or a slot never written.
WritesOldestSlot ==
  IF Len(pre.written) = kQueueLen
    THEN pre.written[kQueueLen] = pre.idx
    ELSE \A k \in 1..Len(pre.written) : pre.written[k] # pre.idx

\* C6: a SetPoseMatrix call writes exactly one slot, the least recently
\* written one, which is the slot at the cursor, leaves the other slots as
\* they were, and advances the cursor by 1 modulo kQueueLen, all while it
\* holds state_mutex_.
C6_WritesOneSlotAndAdvances ==
  InSetPoseMatrix =>
    /\ state_mutex_ = "render"
    /\ WritesOldestSlot
    /\ \A s \in Slots : s # pre.idx => pose_matrix_[s] = pre.ring[s]
    /\ pcRender = "assign" => current_idx_ = pre.idx
    /\ pcRender = "unlock" =>
         /\ pose_matrix_[pre.idx] = AsMatrix34(pose_mat)
         /\ current_idx_ = (pre.idx + 1) % kQueueLen

\* SetPoseMatrix is about to return having overwritten the last slot of a
\* full ring with a pose that differs from the one it held.
C6_Witness ==
  /\ pcRender = "unlock"
  /\ Len(pre.written) = kQueueLen
  /\ pre.idx = kQueueLen - 1
  /\ current_idx_ = 0
  /\ pose_matrix_[pre.idx] # pre.ring[pre.idx]
  /\ pose_matrix_[pre.idx] = AsMatrix34(pose_mat)

\* C9: a step changes a ring slot or the cursor only if it is a step of
\* SetPoseMatrix, taken by the render thread inside OnDrawFrame with the
\* mutex held; the steps of GetTrackingState and of DetermineOffset leave
\* every slot and the cursor as they are.
C9_OnlySetPoseMatrixWrites ==
  [][ /\ (ringVars' # ringVars) =>
           /\ pcRender = "assign"
           /\ state_mutex_ = "render"
           /\ UNCHANGED callbackVars
      /\ (callbackVars' # callbackVars) => UNCHANGED ringVars
      /\ InDetermineOffset => UNCHANGED ringVars
      /\ (pose_offset' # pose_offset) => UNCHANGED ringVars ]_vars

\* GetTrackingState and DetermineOffset have both run to their result on a
\* ring that holds a push.
C9_Witness ==
  /\ pcCallback = "unlock"
  /\ state # None
  /\ pose_offset # None
  /\ pose_offset.examined >= 1
  /\ hist # <<>>
  /\ pose_matrix_[NewestIdx(current_idx_)] = Sample(0)

\* C10: a critical section of state_mutex_ holds only the array and cursor
\* accesses, so whoever holds the mutex releases it, and with the scheduling
\* of FairConc a thread that waits for the mutex gets it.
C10_MutexReleasedAndAcquired ==
  /\ (state_mutex_ = "render") ~> (state_mutex_ # "render")
  /\ (state_mutex_ = "callback") ~> (state_mutex_ # "callback")
  /\ (pcCallback = "lock") ~> (pcCallback = "index")
  /\ (pcRender = "lock") ~> (pcRender = "assign")

\* The callback waits for the mutex while SetPoseMatrix holds it.
C10_Witness ==
  /\ pcCallback = "lock"
  /\ state_mutex_ = "render"
  /\ pcRender = "assign"
  /\ nAssigned = 5

\* ----------------------------------------------------------- OnDrawFrame
\* OnDrawFrame is at its return, with the history of the whole call.
Returning == pcFrame = "ret"

\* The entries of a history that are calls of `call`.
EventsOf(tr, call) == {i \in DOMAIN tr : tr[i].call = call}

\* The Latch() of the streaming path: the one made with the base frame
\* calibrated (the one before UpdateImageAnchors is made without).
StreamingLatch(e) == e.call = "Latch" /\ e.calibrated

\* The call got to the streaming path: the camera tracks, the base frame
\* is calibrated, the receiver runs (Connect() did not fail), and Latch()
\* did not return cxrError_Receiver_Not_Running.
ReachedStreaming(tr) ==
  \E i \in DOMAIN tr :
    /\ StreamingLatch(tr[i])
    /\ tr[i].status # "cxrError_Receiver_Not_Running"

\* C11: an OnDrawFrame calls SetPoseMatrix at most once, and exactly once
\* if it gets to the streaming path, with a frame latched or without.
C11_PushesOncePerFrame ==
  /\ Count(trace, "SetPoseMatrix") <= 1
  /\ (Returning /\ ReachedStreaming(trace))
       => Count(trace, "SetPoseMatrix") = 1

\* An OnDrawFrame returns that got no frame (cxrError_Frame_Not_Ready) and
\* pushed its pose.
C11_Witness ==
  /\ Returning
  /\ ReachedStreaming(trace)
  /\ ~have_frame
  /\ Count(trace, "SetPoseMatrix") = 1
  /\ hist # <<>>

\* ------------------------------------------------------- failing SDK calls
\* The calls into oboe and CloudXR that return a status.
SdkCalls ==
  {"playback_stream", "recording_stream", "cxrCreateReceiver", "cxrConnect",
   "cxrLatchFrame", "cxrGetConnectionStats"}

\* An SDK call that failed.
Failed(e) ==
  /\ e.call \in SdkCalls
  /\ e.status \notin {"OK", "cxrError_Success"}

\* tr has a call of one of `calls` behind entry i.
After(tr, i, calls) ==
  \E j \in DOMAIN tr : j > i /\ tr[j].call \in calls

Handled(i) ==
  LET e == trace[i]
  IN CASE e.call = "playback_stream" ->
            /\ ~launch_options_.mReceiveAudio
            /\ ~playback_stream_
            /\ After(trace, i, {"cxrCreateReceiver"})
       [] e.call = "recording_stream" ->
            /\ ~launch_options_.mSendAudio
            /\ ~recording_stream_
            /\ After(trace, i, {"cxrCreateReceiver"})
       [] e.call = "cxrCreateReceiver" ->
            /\ ~cloudxr_receiver_
            /\ exiting_
            /\ rc = AsInt(e.status) /\ rc # 0
            /\ i = Len(trace)
       [] e.call = "cxrConnect" ->
            /\ ~cloudxr_receiver_ /\ ~playback_stream_ /\ ~recording_stream_
            /\ exiting_
            /\ rc = AsInt(e.status) /\ rc # 0
            /\ ~After(trace, i, {"Latch", "SetPoseMatrix"})
       [] e.call = "cxrLatchFrame" /\ ~e.calibrated ->
            /\ ~latched_
            /\ ~(i < Len(trace) /\ trace[i + 1].call = "cxrReleaseFrame")
       [] e.call = "cxrLatchFrame" /\ e.calibrated
            /\ e.status = "cxrError_Receiver_Not_Running" ->
            /\ ~latched_
            /\ exiting_
            /\ rc = AsInt(e.status) /\ rc # 0
            /\ i = Len(trace)
       [] e.call = "cxrLatchFrame" /\ e.calibrated
            /\ e.status # "cxrError_Receiver_Not_Running" ->
            /\ ~latched_
            /\ ~exiting_ /\ rc = 0
            /\ ~After(trace, i, {"DetermineOffset", "cxrBlitFrame",
                                 "cxrReleaseFrame", "cxrGetConnectionStats"})
            /\ \E j \in EventsOf(trace, "Draw") : j > i /\ trace[j].offset = 0
            /\ After(trace, i, {"SetPoseMatrix"})
       [] e.call = "cxrGetConnectionStats" ->
            /\ frames_until_stats_ = 0
            /\ ~exiting_ /\ rc = 0

OffsetFromLatchToDraw ==
  \A i \in DOMAIN trace :
    /\ trace[i].call = "DetermineOffset" =>
         /\ i > 1
         /\ trace[i - 1].call = "cxrLatchFrame"
         /\ trace[i - 1].status = "cxrError_Success"
         /\ trace[i].latched
         /\ i < Len(trace)
         /\ trace[i + 1].call = "Draw"
         /\ trace[i + 1].offset = trace[i].offset
         /\ Returning =>
              /\ Count(trace, "SetPoseMatrix") = 1
              /\ Count(trace, "cxrBlitFrame") = 1
              /\ After(trace, i, {"cxrReleaseFrame"})
    /\ (trace[i].call = "Draw" /\ trace[i].offset # 0) =>
         /\ i > 1
         /\ trace[i - 1].call = "DetermineOffset"

\* The entries a step adds to the history.
Added == {j \in DOMAIN trace' : j > Len(trace)}

\* With the offset determined, a step writes the ring as SetPoseMatrix
\* does for the pose of the frame, changes the latch state as Release()
\* does, and hands the offset to no further call.
OffsetUnused ==
  pose_offset # None =>
    /\ ringVars' # ringVars =>
         \E pm \in AppPoseMats :
           /\ pose_matrix_' =
                [pose_matrix_ EXCEPT ![current_idx_] = AsMatrix34(pm)]
           /\ current_idx_' = (current_idx_ + 1) % kQueueLen
    /\ latchVars' # latchVars =>
         /\ latched_' = FALSE
         /\ framesLatched_' = framesLatched_
    /\ Len(trace') > Len(trace) => \A j \in Added : trace'[j].offset = 0

\* C13: DetermineOffset runs only in an OnDrawFrame whose Latch succeeded
\* (the offset is 0 otherwise), its result is the frame offset of the
\* background renderer's Draw and nothing else: not the pose pushed, the
\* ring, the latch state or a call to the server.
C13_OffsetOnlyForDraw ==
  /\ []OffsetFromLatchToDraw
  /\ [][OffsetUnused]_vars

\* An OnDrawFrame returns that found its frame one slot behind the cursor
\* and has pushed its pose and drawn the streamed frame.
C13_Witness ==
  /\ Returning
  /\ pose_offset # None
  /\ pose_offset.offset = 1
  /\ \E i \in EventsOf(trace, "Draw") : trace[i].offset = 1
  /\ Count(trace, "SetPoseMatrix") = 1
  /\ Count(trace, "cxrBlitFrame") = 1

\* ------------------------------------------------------ latch and release
\* The cxrLatchFrame calls of a history that succeeded.
Latches(tr) ==
  {i \in EventsOf(tr, "cxrLatchFrame") : tr[i].status = "cxrError_Success"}

\* The cxrReleaseFrame calls between entry i and the next cxrLatchFrame.
ReleasesBehind(tr, i) ==
  {j \in EventsOf(tr, "cxrReleaseFrame") :
     /\ j > i
     /\ \A k \in EventsOf(tr, "cxrLatchFrame") : k > i => j < k}

\* C14: with the lifecycle callbacks run one after the other, every
\* cxrLatchFrame that succeeded has exactly one cxrReleaseFrame behind it
\* in the same OnDrawFrame, before the next cxrLatchFrame, and latched_ is
\* false when OnDrawFrame returns and between the callbacks.
C14_EveryLatchReleased ==
  /\ pcFrame \in {"ret", "idle"} => ~latched_
  /\ Returning =>
       \A i \in Latches(trace) : Cardinality(ReleasesBehind(trace, i)) = 1
  /\ \A j \in EventsOf(trace, "cxrReleaseFrame") : trace[j].latched

\* An OnDrawFrame returns that latched and released a frame before the
\* images calibrated the base frame, and another one behind it.
C14_Witness ==
  /\ Returning
  /\ Cardinality(Latches(trace)) = 2
  /\ Count(trace, "cxrReleaseFrame") = 2
  /\ Count(trace, "cxrBlitFrame") = 1
  /\ ~latched_

\* ---------------------------------------------------------- slot indices
\* C15: current_idx_ is always in 0 .. kQueueLen - 1, and so is every slot
\* index GetTrackingState and DetermineOffset compute, for every cursor
\* and every offset 0 .. kQueueLen - 1, with the truncating % of C++.
C15_IndicesInRange ==
  /\ current_idx_ \in 0..(kQueueLen - 1)
  /\ \A cur \in 0..(kQueueLen - 1) :
       /\ NewestIdx(cur) \in 0..(kQueueLen - 1)
       /\ \A off \in 0..(kQueueLen - 1) :
            OffsetIdx(cur, off) \in 0..(kQueueLen - 1)
  /\ idx \in 0..(kQueueLen - 1)
  /\ (pcRender = "scan" /\ offset < kQueueLen) =>
       OffsetIdx(current_idx_, offset) \in 0..(kQueueLen - 1)

\* DetermineOffset looks at an offset beyond the cursor (its index comes
\* from a negative remainder) while GetTrackingState, with the cursor at
\* 0, reads the last slot.
C15_Witness ==
  /\ pcRender = "scan"
  /\ offset < kQueueLen
  /\ current_idx_ < offset
  /\ OffsetIdx(current_idx_, offset) = kQueueLen + current_idx_ - offset
  /\ pcCallback = "read"
  /\ current_idx_ = 0
  /\ idx = kQueueLen - 1
  /\ hist # <<>>

\* ------------------------------------------------------ the reported pose
\* C16: every pose GetTrackingState reports is one SetPoseMatrix pushed
\* before, also in a callback between Connect() and the first push.
C16_ReportsPushedPose ==
  state # None => \E k \in DOMAIN hist : state = PoseOf(hist[k])

\* The receiver is connected, OnDrawFrame is about to latch its first
\* frame and has pushed no pose yet, and GetTrackingState has reported
\* the value-initialised matrix.
C16_Witness ==
  /\ cloudxr_receiver_
  /\ pcFrame = "latch"
  /\ hist = <<>>
  /\ state = cxrMatrixToVecQuat(ZeroMatrix34)

\* ------------------------------------------------------ the fatal errors
\* Connect() failed in this OnDrawFrame.
ConnectFailed(tr) ==
  \E i \in EventsOf(tr, "Connect") : tr[i].status # "cxrError_Success"

\* The Latch() of the streaming path returned one of `statuses`.
LatchReturned(tr, statuses) ==
  \E i \in DOMAIN tr : StreamingLatch(tr[i]) /\ tr[i].status \in statuses

ExitingStep ==
  exiting_ =>
    /\ exiting_' \/ Construct
    /\ (pcFrame = "idle" /\ pcFrame' # "idle") =>
         /\ pcFrame' = "ret"
         /\ rc' = 0
         /\ trace' = <<>>
         /\ UNCHANGED <<ringVars, latchVars, clientVars, sessionVars>>
    /\ (audio' # None /\ audio' # audio) =>
         /\ ~audio'.passed
         /\ audio'.call = "RenderAudio" => audio'.ret = "cxrFalse"
         /\ audio'.call = "onAudioReady" => audio'.ret = "Stop"

\* C18: once exiting_ is true it stays true until a new instance is
\* constructed, and from then on every OnDrawFrame returns 0 before it
\* touches the AR session or the client, RenderAudio returns cxrFalse
\* without writing and onAudioReady returns Stop without sending.
C18_ExitingIsFinal == [][ExitingStep]_vars

\* With exiting_ set and the session, the receiver and the playback stream
\* still there, an OnDrawFrame returns 0 having done nothing and
\* RenderAudio has refused a frame.
C18_Witness ==
  /\ exiting_
  /\ Returning
  /\ trace = <<>>
  /\ rc = 0
  /\ ar_session_ /\ cloudxr_receiver_ /\ playback_stream_
  /\ audio # None
  /\ audio.call = "RenderAudio"
  /\ audio.ret = "cxrFalse"

Called(method) == trace # <<>> /\ trace[1].call = method

\* What Latch() returned and did, by the state it was called in.
LatchAnswers ==
  Called("Latch") =>
    LET e == trace[1]
    IN /\ e.latched =>
            /\ e.status = "cxrError_Success"
            /\ Len(trace) = 1
            /\ latched_
       /\ (~e.latched /\ ~e.receiver) =>
            /\ e.status = "cxrError_Receiver_Not_Running"
            /\ Len(trace) = 1
            /\ ~latched_
       /\ (~e.latched /\ e.receiver) =>
            /\ Len(trace) = 2
            /\ trace[2].call = "cxrLatchFrame"
            /\ e.status = trace[2].status
            /\ latched_ <=> (trace[2].status = "cxrError_Success")

\* latched_ becomes true only in a call with a cxrLatchFrame that
\* succeeded; a Release() with nothing latched calls no SDK and changes
\* nothing.
LatchedOnlyBySuccess ==
  /\ (~latched_ /\ latched_') => Latches(trace') # {}
  /\ (~latched_ /\ trace' # <<>> /\ trace'[1].call = "Release") =>
       /\ Len(trace') = 1
       /\ UNCHANGED <<latchVars, clientVars, ringVars, sessionVars>>

\* C20: Latch() with a frame latched returns success without
\* cxrLatchFrame; with nothing latched and no receiver it returns
\* cxrError_Receiver_Not_Running; when cxrLatchFrame fails it returns that
\* status; in both failures latched_ stays false, and it becomes true only
\* by a cxrLatchFrame that succeeded.  Release() with nothing latched
\* makes no SDK call and changes nothing.
C20_LatchAndRelease ==
  /\ []LatchAnswers
  /\ [][LatchedOnlyBySuccess]_vars

\* Latch() was called with a frame latched, for which cxrLatchFrame would
\* have failed, and has answered success without calling it.
C20_Witness ==
  /\ Called("Latch")
  /\ trace[1].latched
  /\ trace[1].receiver
  /\ trace[1].status = "cxrError_Success"
  /\ Len(trace) = 1
  /\ latched_

\* ------------------------------------------------- calls without a receiver
\* The CloudXR calls that are handed cloudxr_receiver_ and need it.
NeedsReceiver ==
  {"cxrLatchFrame", "cxrBlitFrame", "cxrReleaseFrame",
   "cxrGetConnectionStats", "cxrSendLightProperties", "cxrSendInputEvent"}

\* C21: in any sequence of lifecycle callbacks, each run to its end, no
\* CloudXR call that needs a receiver (cxrLatchFrame, cxrBlitFrame,
\* cxrReleaseFrame, cxrGetConnectionStats, cxrSendLightProperties,
\* cxrSendInputEvent) is made while cloudxr_receiver_ is null.
C21_NoCallWithoutReceiver ==
  \A i \in DOMAIN trace :
    trace[i].call \in NeedsReceiver => trace[i].receiver

\* An OnDrawFrame on a receiver of an earlier frame has latched, sent the
\* light estimate, blitted, released and asked for the statistics.
C21_Witness ==
  /\ Returning
  /\ Count(trace, "Connect") = 0
  /\ NeedsReceiver \ {"cxrSendInputEvent"} \subseteq Calls(trace)

\* --------------------------------------------------- audio while connecting
\* C22: for any interleaving of the audio callback thread with Connect and
\* Teardown on the render thread, onAudioReady never calls cxrSendAudio
\* while cloudxr_receiver_ is null.
C22_SendAudioHasReceiver ==
  (audio # None /\ audio.call = "onAudioReady" /\ audio.passed)
    => audio.receiver

\* onAudioReady has handed a recorded frame to cxrSendAudio inside
\* Connect(), the recording stream started and cxrCreateReceiver not yet
\* called.
C22_Witness ==
  /\ audio # None
  /\ audio.call = "onAudioReady"
  /\ audio.passed
  /\ ~audio.receiver
  /\ pcFrame = "c_create"
  /\ recording_stream_
  /\ ~exiting_

\* ------------------------------------------------------------ one receiver
\* Connect() called in the current state, a receiver in place: it returns
\* success, calls nothing and leaves receiver, streams and options alone.
ConnectedConnectIsIdle ==
  cloudxr_receiver_ =>
    \A o \in ConnectResults :
      /\ ConnectReturns(o) = "cxrError_Success"
      /\ Len(ConnectCalls(o)) = 1
      /\ ConnectReceiver(o) = cloudxr_receiver_
      /\ StreamAfterConnect(playback_stream_, launch_options_.mReceiveAudio,
                            o.playback, o) = playback_stream_
      /\ StreamAfterConnect(recording_stream_, launch_options_.mSendAudio,
                            o.recording, o) = recording_stream_
      /\ OptionsAfterConnect(o) = launch_options_

\* The camera of the OnDrawFrame the history belongs to is tracking.
CameraTracking(tr) ==
  /\ tr # <<>>
  /\ tr[1].call = "ArCamera_getTrackingState"
  /\ tr[1].status = "AR_TRACKING_STATE_TRACKING"

\* C23: Connect on a connected client returns success without opening
\* audio streams or creating a receiver; OnDrawFrame calls Connect only in
\* a frame where the camera is tracking, the base frame is calibrated and
\* the client is not running; so a receiver is created only where there is
\* none, and none before calibration.
C23_OneReceiverAfterCalibration ==
  /\ ConnectedConnectIsIdle
  /\ \A i \in EventsOf(trace, "Connect") :
       /\ CameraTracking(trace)
       /\ trace[i].calibrated
       /\ ~trace[i].receiver
  /\ \A i \in EventsOf(trace, "cxrCreateReceiver") :
       /\ ~trace[i].receiver
       /\ trace[i].calibrated

\* An OnDrawFrame has connected: the receiver it created is in place, and
\* a Connect() now would find it.
C23_Witness ==
  /\ Returning
  /\ cloudxr_receiver_
  /\ \E i \in EventsOf(trace, "cxrCreateReceiver") :
       trace[i].status = "cxrError_Success"
  /\ \E i \in EventsOf(trace, "cxrConnect") :
       trace[i].status = "cxrError_Success"

\* ---------------------------------------------------- a Connect that failed
\* C24: whenever Connect returns a non-success code, on return the
\* receiver handle is null and no playback or recording stream remains
\* open, whichever step failed (cxrCreateReceiver or cxrConnect).
C24_FailedConnectLeavesNothing ==
  ConnectFailed(trace) =>
    /\ ~cloudxr_receiver_
    /\ ~playback_stream_
    /\ ~recording_stream_

\* Connect() has returned the error of cxrCreateReceiver, and both audio
\* streams it had started are still open.
C24_Witness ==
  /\ Returning
  /\ ConnectFailed(trace)
  /\ \E i \in EventsOf(trace, "cxrCreateReceiver") :
       trace[i].status # "cxrError_Success"
  /\ ~cloudxr_receiver_
  /\ playback_stream_
  /\ recording_stream_

\* Connect() has returned the error of cxrConnect: Teardown() has closed
\* the streams and destroyed the receiver.
FailedCxrConnectLeavesNothing ==
  (ConnectFailed(trace) /\ Count(trace, "cxrDestroyReceiver") = 1) =>
    /\ ~cloudxr_receiver_
    /\ ~playback_stream_
    /\ ~recording_stream_

\* ------------------------------------------------- an audio stream that failed
\* A stream of this Connect() failed, and what has to follow: the stream
\* is closed and null, its launch option is off, and Connect() went on to
\* cxrCreateReceiver with the flag off in the descriptor.
StreamFailed(name) ==
  \E i \in EventsOf(trace, name) : trace[i].status # "OK"

CreatedWithout(name, flag) ==
  \A i \in EventsOf(trace, name) :
    \E j \in EventsOf(trace, "cxrCreateReceiver") :
      j > i /\ ~trace[j].deviceDesc[flag]

\* A Connect() called in the current state does not try a stream whose
\* launch option is off.
NotRetried(option, name) ==
  ~launch_options_[option] =>
    \A o \in ConnectResults : Count(ConnectCalls(o), name) = 0

\* C25: if opening, sizing or starting the playback stream fails during
\* Connect, the playback stream is closed and null, receiveAudio is false
\* in the descriptor handed to cxrCreateReceiver and in the launch options
\* (later reconnects do not retry it), and Connect still creates the
\* receiver; the same for the recording stream and sendAudio.
C25_FailedStreamSwitchedOff ==
  /\ StreamFailed("playback_stream") =>
       /\ ~playback_stream_
       /\ ~launch_options_.mReceiveAudio
       /\ CreatedWithout("playback_stream", "receiveAudio")
  /\ StreamFailed("recording_stream") =>
       /\ ~recording_stream_
       /\ ~launch_options_.mSendAudio
       /\ CreatedWithout("recording_stream", "sendAudio")
  /\ NotRetried("mReceiveAudio", "playback_stream")
  /\ NotRetried("mSendAudio", "recording_stream")

\* Both streams failed in a Connect() that then created its receiver and
\* connected.
C25_Witness ==
  /\ StreamFailed("playback_stream")
  /\ StreamFailed("recording_stream")
  /\ cloudxr_receiver_
  /\ \E j \in EventsOf(trace, "cxrCreateReceiver") :
       /\ trace[j].status = "cxrError_Success"
       /\ trace[j].deviceDesc = [receiveAudio |-> FALSE, sendAudio |-> FALSE]

\* ------------------------------------------------------------ the tolerance
\* The distance of two components.
Distance(a, b) == IF a < b THEN b - a ELSE a - b

\* Each of the twelve components of m is strictly closer than 0.0001 to
\* the one of target.
StrictlyWithin(m, target) ==
  \A i \in Rows, j \in Cols : Distance(m[i][j], target[i][j]) < Eps

\* DetermineOffset has returned the offset of a slot it found to match
\* (and not the 0 of a scan that ran out).
FoundMatch ==
  /\ pose_offset # None
  /\ pose_offset.offset = pose_offset.examined - 1

\* The slots DetermineOffset passed over before it returned.
PassedOver ==
  IF pose_offset = None THEN {}
  ELSE {OffsetIdx(current_idx_, d) :
          d \in 0..(pose_offset.examined - (IF FoundMatch THEN 2 ELSE 1))}

\* C26: a ring sample matches the latched frame's pose if and only if each
\* of its 12 components differs from the corresponding component of the
\* latched pose by strictly less than 0.0001; a difference of 0.0001 or
\* more in any single component disqualifies the slot.
C26_MatchIsStrictlyWithinTolerance ==
  /\ \A s \in Slots :
       Matches(pose_matrix_[s], framesLatched_)
         <=> StrictlyWithin(pose_matrix_[s], framesLatched_)
  /\ FoundMatch =>
       StrictlyWithin(pose_matrix_[OffsetIdx(current_idx_, pose_offset.offset)],
                      framesLatched_)
  /\ \A s \in PassedOver : ~StrictlyWithin(pose_matrix_[s], framesLatched_)

\* DetermineOffset has passed over a slot that is exactly 0.0001 away from
\* the latched pose in one component and equal in the others, and has
\* returned a slot that is closer than 0.0001 without being equal.
C26_Witness ==
  /\ FoundMatch
  /\ pose_matrix_[OffsetIdx(current_idx_, pose_offset.offset)] # framesLatched_
  /\ \E s \in PassedOver :
       Cardinality({ij \in Rows \X Cols :
          pose_matrix_[s][ij[1]][ij[2]] # framesLatched_[ij[1]][ij[2]]}) = 1
       /\ \A i \in Rows, j \in Cols :
            Distance(pose_matrix_[s][i][j], framesLatched_[i][j]) <= Eps

\* ---------------------------------------------------------------- OnTouched
\* What OnTouched has sent and left behind, by the press and the state it
\* was called with.
TouchAnswers ==
  Called("OnTouched") =>
    LET e == trace[1]
        sent == Count(trace, "cxrSendInputEvent")
    IN /\ (e.status = "press" /\ e.calibrated) =>
            sent = (IF e.receiver THEN 1 ELSE 0)
       /\ (e.status = "press" /\ ~e.calibrated) => sent = 0
       /\ e.status = "longPress" =>
            /\ sent = 0
            /\ ~anchor_
            /\ ~base_frame_calibrated_

\* A short press with the base frame calibrated leaves anchor_ and
\* base_frame_calibrated_ as they are.
ShortPressKeepsCalibration ==
  (/\ base_frame_calibrated_
   /\ trace' # <<>>
   /\ trace'[1].call = "OnTouched"
   /\ trace'[1].status = "press")
    => UNCHANGED <<anchor_, base_frame_calibrated_>>

\* C27: OnTouched with the base frame calibrated and no long press sends
\* exactly one touch event to the server if the client is running (none
\* otherwise) and changes neither anchor_ nor base_frame_calibrated_; with
\* a long press it sends nothing, nulls anchor_ and clears
\* base_frame_calibrated_ whatever the prior state; a short press while
\* uncalibrated never sends an event to the server.
C27_OnTouched ==
  /\ []TouchAnswers
  /\ [][ShortPressKeepsCalibration]_vars

\* A short press with the base frame calibrated and the client running
\* has sent its one touch event.
C27_Witness ==
  /\ Called("OnTouched")
  /\ trace[1].status = "press"
  /\ trace[1].calibrated
  /\ trace[1].receiver
  /\ Count(trace, "cxrSendInputEvent") = 1
  /\ anchor_
  /\ base_frame_calibrated_

====
